---- MODULE Spec2Model ----
(***************************************************************************)
(* Model of the Copilot Direct Data Access scripts of samqbush/api-scripts *)
(*   src/copilot/copilot_dda_complete.py  ("complete" variant)             *)
(*   src/copilot/copilot_dda.py           ("simple" variant)               *)
(*                                                                         *)
(* One run of a script is one behaviour.  The environment (token, dates,   *)
(* time zone, working directory) is fixed by Init; the clock moves on      *)
(* between two readings of it; the answers of the HTTP servers are chosen  *)
(* when the request is made.                                               *)
(*                                                                         *)
(* Dates are day numbers (days since the epoch).  An instant is a number   *)
(* of whole seconds since the epoch and a number of microseconds.  The     *)
(* code divides a difference of epoch seconds by 86400 in floating point   *)
(* and compares with 14 and 365; for the magnitudes involved               *)
(* x / 86400 > n is the same as x > n * 86400, and that is how the         *)
(* comparison is written here.                                             *)
(***************************************************************************)
EXTENDS Integers, Sequences, FiniteSets, TLC

(***************************************************************************)
(* Program constants                                                       *)
(***************************************************************************)
SecondsPerDay == 86400
MaxRangeDays == 14
MaxPastDays == 365
DefaultUntilBack == 1
DefaultSinceBack == 15
ExitFailure == 1

(***************************************************************************)
(* Bounds of the model                                                     *)
(***************************************************************************)
Today == 1000
MaxEntries == 2
MaxBlobs == 3
(* The time that passes between two readings of the clock: none, or this   *)
(* many microseconds.                                                      *)
TickMicros == 500000

Variants == {"complete", "simple"}

(* os.getenv("GITHUB_TOKEN"): the variable is unset (None), empty, or set. *)
TokenUnset == [set |-> FALSE, value |-> ""]
TokenEmpty == [set |-> TRUE, value |-> ""]
TokenGood == [set |-> TRUE, value |-> "ghp_A"]
TokenOther == [set |-> TRUE, value |-> "ghp_B"]
Tokens == {TokenUnset, TokenEmpty, TokenGood, TokenOther}

(* A --since/--until string: a well-formed YYYY-MM-DD date (its day        *)
(* number), or a string that strptime rejects.                             *)
Date(d) == [wellformed |-> TRUE, day |-> d]
BadDate == [wellformed |-> FALSE, day |-> 0]

(* None or the empty string: what `x or default` replaces by the default. *)
Falsy == [wellformed |-> FALSE, day |-> 0 - 1]

(* The local time zone: no daylight-saving change, or one change of one    *)
(* hour during day tz.day ("spring": clocks go forward, "fall": back),     *)
(* taking effect tz.at seconds after local midnight of that day, as the    *)
(* rule of the zone has it.                                                *)
NoDst == [kind |-> "none", day |-> 0, at |-> 0]
Dst(k, d, at) == [kind |-> k, day |-> d, at |-> at]

(* An instant of the local clock: the local date, the seconds elapsed      *)
(* since local midnight of that date, and the microseconds.                *)
Instant(d, sec, us) == [today |-> d, secs |-> sec, micro |-> us]

VARIABLES
    variant,        \* which script runs
    token,          \* GITHUB_TOKEN in the process environment
    since_date,     \* the since string of the run
    until_date,     \* the until string of the run
    clock,          \* the instant of the latest reading of the clock
    main_today,     \* `today` of main: <<>> before main has read the clock
    init_today,     \* `today` of __init__: <<>> before __init__ has read the clock
    ticks,          \* how many more times the clock moves on between readings
    tz,             \* the local time zone's daylight-saving change
    pc,             \* position of the run
    requests,       \* HTTP requests issued so far, in order
    responses,      \* what each request got back: responses[k] answers requests[k]
    steps,          \* the steps of the pipeline entered so far, in order
    fs,             \* paths created or written in the output directory
    log,            \* error and warning lines logged, in order
    json_data,      \* the decoded manifest
    i,              \* index of the manifest entry being processed
    j,              \* index of the next blob URI of that entry
    all_dataframes, \* chunks decoded so far
    df,             \* self.df: <<>> is None, <<t>> is the table t
    exit_code,      \* process exit status; NoExit while running
    crashed,        \* the run ended with an uncaught exception
    raw_csv,        \* content of raw_copilot_data.csv: <<>> while not written
    report,         \* [file, printed]: sections of summary_report.txt, lines printed
    user_summary,   \* content of user_activity_summary.csv: <<>> while not written
    enterprise,     \* the enterprise slug of the command line
    argv,           \* [since, until, output]: the options given, <<>> when omitted
    earlier,        \* the runs that were started before this one
    output_dir,     \* self.output_dir: <<>> before __init__ has set it
    explored        \* data_explorer.py: <<>> before it ran, then its table,
                    \* its position and the files it exported

vars == <<variant, token, since_date, until_date, clock, main_today,
          init_today, ticks, tz, pc, requests,
          responses, steps, fs, log, json_data, i, j, all_dataframes, df,
          exit_code, crashed, raw_csv, report, user_summary, enterprise,
          argv, earlier, output_dir, explored>>

(* What a run is started with, apart from its window. *)
environment == <<variant, token, tz, enterprise, argv, earlier>>

(* The window and the values read from the clock. *)
settings == <<environment, since_date, until_date, main_today, init_today>>

config == <<settings, clock, ticks>>

(* What the run has written of the contents modelled. *)
written == <<raw_csv, report, user_summary, explored>>

NoExit == [code |-> 0, exited |-> FALSE]
Exited(c) == [code |-> c, exited |-> TRUE]
None == <<>>
Some(t) == <<t>>

(***************************************************************************)
(* datetime.strptime(s, "%Y-%m-%d").timestamp(): the epoch second of local *)
(* midnight of the day.  A daylight-saving change during day tz.day moves  *)
(* every later local midnight by one hour.                                 *)
(***************************************************************************)
UtcOffset(d, zone) ==
    IF zone.kind = "spring" /\ d > zone.day THEN 3600
    ELSE IF zone.kind = "fall" /\ d > zone.day THEN 0 - 3600
    ELSE 0

Timestamp(d, zone) == d * SecondsPerDay - UtcOffset(d, zone)

(* The seconds elapsed since local midnight when the daylight-saving       *)
(* change of the zone takes effect, and the length of local day d.         *)
ChangeAt(zone) == zone.at
DayLength(d, zone) ==
    IF zone.kind = "spring" /\ d = zone.day THEN SecondsPerDay - 3600
    ELSE IF zone.kind = "fall" /\ d = zone.day THEN SecondsPerDay + 3600
    ELSE SecondsPerDay

(* The seconds after 00:00:00 that the wall clock shows at instant c: on   *)
(* the day of the change, once it has taken effect, one hour more (spring) *)
(* or less (fall) than the seconds elapsed since midnight.                 *)
WallSecs(c, zone) ==
    IF zone.kind = "spring" /\ c.today = zone.day /\ c.secs >= ChangeAt(zone)
    THEN c.secs + 3600
    ELSE IF zone.kind = "fall" /\ c.today = zone.day /\ c.secs >= ChangeAt(zone)
    THEN c.secs - 3600
    ELSE c.secs

(* The instant t microseconds after c. *)
MicrosPerSecond == 1000000
Later(c, t, zone) ==
    LET us == c.micro + t
        sec == c.secs + us \div MicrosPerSecond
    IN  IF sec >= DayLength(c.today, zone)
        THEN Instant(c.today + 1, sec - DayLength(c.today, zone),
                     us % MicrosPerSecond)
        ELSE Instant(c.today, sec, us % MicrosPerSecond)

(* What datetime.now() can return when the previous reading was c: with n  *)
(* moves of the clock left, the reading and the moves left after it.       *)
Reading(c, n) == [now |-> c, left |-> n]
Advance(c, n, zone) ==
    {Reading(c, n)}
        \cup (IF n > 0 THEN {Reading(Later(c, TickMicros, zone), n - 1)} ELSE {})

(* datetime.now().timestamp(): a float, here its whole seconds and its     *)
(* microseconds.                                                           *)
NowEpoch(c, zone) ==
    [secs |-> Timestamp(c.today, zone) + c.secs, micro |-> c.micro]

(* (now - epoch) / 86400 > days, for an epoch in whole seconds. *)
DaysExceed(now, epoch, days) ==
    \/ now.secs - epoch > days * SecondsPerDay
    \/ now.secs - epoch = days * SecondsPerDay /\ now.micro > 0

(***************************************************************************)
(* Date validation                                                         *)
(***************************************************************************)
(* Variants of _validate_date_range with one rule broken, used to show     *)
(* that the properties below depend on each rule.                          *)
validate_date_range_no_order(s, u, now, zone) ==
    IF ~s.wellformed \/ ~u.wellformed THEN "date_parse_error"
    ELSE LET since_date_epoch == Timestamp(s.day, zone)
             until_date_epoch == Timestamp(u.day, zone)
         IN  IF until_date_epoch - since_date_epoch
                         > MaxRangeDays * SecondsPerDay
             THEN "range_exceeds_14_days"
             ELSE IF DaysExceed(now, since_date_epoch, MaxPastDays)
                  THEN "since_over_365_days"
             ELSE "valid"

validate_date_range_off_by_one(s, u, now, zone) ==
    IF ~s.wellformed \/ ~u.wellformed THEN "date_parse_error"
    ELSE LET since_date_epoch == Timestamp(s.day, zone)
             until_date_epoch == Timestamp(u.day, zone)
         IN  IF since_date_epoch > until_date_epoch THEN "since_after_until"
             ELSE IF until_date_epoch - since_date_epoch
                         > (MaxRangeDays + 1) * SecondsPerDay
                  THEN "range_exceeds_14_days"
             ELSE IF DaysExceed(now, since_date_epoch, MaxPastDays)
                  THEN "since_over_365_days"
             ELSE "valid"

validate_date_range_no_past(s, u, now, zone) ==
    IF ~s.wellformed \/ ~u.wellformed THEN "date_parse_error"
    ELSE LET since_date_epoch == Timestamp(s.day, zone)
             until_date_epoch == Timestamp(u.day, zone)
         IN  IF since_date_epoch > until_date_epoch THEN "since_after_until"
             ELSE IF until_date_epoch - since_date_epoch
                         > MaxRangeDays * SecondsPerDay
                  THEN "range_exceeds_14_days"
             ELSE "valid"

(* _validate_date_range with the 365-day rule tried before the 14-day     *)
(* rule.                                                                   *)
validate_date_range_past_first(s, u, now, zone) ==
    IF ~s.wellformed \/ ~u.wellformed THEN "date_parse_error"
    ELSE LET since_date_epoch == Timestamp(s.day, zone)
             until_date_epoch == Timestamp(u.day, zone)
         IN  IF since_date_epoch > until_date_epoch THEN "since_after_until"
             ELSE IF DaysExceed(now, since_date_epoch, MaxPastDays)
                  THEN "since_over_365_days"
             ELSE IF until_date_epoch - since_date_epoch
                         > MaxRangeDays * SecondsPerDay
                  THEN "range_exceeds_14_days"
             ELSE "valid"

(* CopilotCompleteAnalyzer._validate_date_range: the error it logs, or     *)
(* "valid".  The rules are tried in this order and the first that fails    *)
(* decides.                                                                *)
validate_date_range(s, u, now, zone) ==
    IF ~s.wellformed \/ ~u.wellformed THEN "date_parse_error"
    ELSE LET since_date_epoch == Timestamp(s.day, zone)
             until_date_epoch == Timestamp(u.day, zone)
         IN  IF since_date_epoch > until_date_epoch THEN "since_after_until"
             ELSE IF until_date_epoch - since_date_epoch
                         > MaxRangeDays * SecondsPerDay
                  THEN "range_exceeds_14_days"
             ELSE IF DaysExceed(now, since_date_epoch, MaxPastDays)
                  THEN "since_over_365_days"
             ELSE "valid"

(* _validate_date_range reads the clock when the strings parse and the     *)
(* first two rules pass.                                                   *)
ReadsClock(s, u, zone) ==
    /\ s.wellformed /\ u.wellformed
    /\ Timestamp(s.day, zone) <= Timestamp(u.day, zone)
    /\ Timestamp(u.day, zone) - Timestamp(s.day, zone)
            <= MaxRangeDays * SecondsPerDay

(* copilot_dda.py, the module-level validation: the same without the       *)
(* 365-day rule.                                                           *)
simple_validate(s, u, zone) ==
    IF ~s.wellformed \/ ~u.wellformed THEN "date_parse_error"
    ELSE LET since_date_epoch == Timestamp(s.day, zone)
             until_date_epoch == Timestamp(u.day, zone)
         IN  IF since_date_epoch > until_date_epoch THEN "since_after_until"
             ELSE IF until_date_epoch - since_date_epoch
                         > MaxRangeDays * SecondsPerDay
                  THEN "range_exceeds_14_days"
             ELSE "valid"

(* A token check that tests only for None. *)
TokenMissing_only_none(t) == ~t.set

(* `if not token`: None and the empty string are both falsy. *)
TokenMissing(t) == ~t.set \/ t.value = ""

(***************************************************************************)
(* HTTP                                                                    *)
(***************************************************************************)
(* The headers dictionary of the authenticated requests. *)
CompleteHeaders(t) == <<"Bearer", t.value>>
SimpleHeaders(t) == <<"token", t.value>>
NoHeaders == <<>>

Request(kind, url, headers) == [kind |-> kind, url |-> url, headers |-> headers]

ProbeUrl == <<"https://api.github.com/rate_limit">>
ManifestUrl(s, u) == <<"direct-data", s, u>>

(* What requests.get followed by raise_for_status and json() can give for  *)
(* an API request.  requests follows redirects, so the final status is 2xx *)
(* or an error status.                                                     *)
(*   "transport"  a requests.exceptions.RequestException (connection,      *)
(*                timeout)                                                 *)
(*   "status_4xx", "status_5xx"  raise_for_status raises HTTPError         *)
(*   "bad_json"   2xx, and the body does not decode                        *)
(*   "other_json" 2xx with a JSON body of a type the next line cannot      *)
(*                use: for the probe anything but an object holding        *)
(*                objects (.get raises AttributeError), for the manifest   *)
(*                null, a number or a boolean (len raises TypeError)       *)
(*   "ok"         2xx with a JSON body that line accepts                   *)
ApiOutcomes ==
    {"transport", "status_4xx", "status_5xx", "bad_json", "other_json", "ok"}
IsHttpError(o) == o \in {"status_4xx", "status_5xx"}

(***************************************************************************)
(* Tables                                                                  *)
(***************************************************************************)
(* The columns a blob may or may not carry; hitdttm and user_login are     *)
(* always there.                                                           *)
OptionalColumns ==
    {"label", "language", "client", "device", "lines", "chars", "active_model"}

(* A row: its user, its timestamp (hours since the epoch) and the optional *)
(* columns in which it holds a value (the others are NaN after concat).    *)
(* The timestamps of the chunks are 2024-02-29 11:00, 2024-03-01 00:00,    *)
(* 2024-12-31 23:00, and the midnights of 2025-03-30, 2025-03-31 and       *)
(* 2025-04-01.                                                             *)
Row(u, t, cols) == [user_login |-> u, hitdttm |-> t, notnull |-> cols]

Table(cols, rows) == [cols |-> cols, rows |-> rows]

ChunkEmpty == Table(OptionalColumns, <<>>)
ChunkFull ==
    Table(OptionalColumns,
          <<Row("alice", 19782 * 24 + 11, OptionalColumns),
            Row("bob", 19783 * 24, OptionalColumns)>>)
ChunkBare == Table({}, <<Row("alice", 20088 * 24 + 23, {})>>)
ChunkLanguage ==
    Table({"language"},
          <<Row("alice", 20177 * 24, {"language"}), Row("bob", 20178 * 24, {"language"}),
            Row("alice", 20179 * 24, {"language"})>>)
Chunks == {ChunkEmpty, ChunkFull, ChunkBare, ChunkLanguage}

(* What a blob download gives: a failure of requests.get, an error status, *)
(* a body pd.read_parquet cannot decode, or a decoded chunk.               *)
BlobError(kind) == [result |-> kind, chunk |-> ChunkEmpty]
BlobOk(c) == [result |-> "ok", chunk |-> c]
BlobOutcomes ==
    {BlobError(k) : k \in {"transport", "status_4xx", "decode_error"}}
        \cup {BlobOk(c) : c \in Chunks}

(* The answer to an API request, in the shape of the answers to blobs. *)
ApiResponse(o) == [result |-> o, chunk |-> ChunkEmpty]

(* The manifest: what the loop `for entry in json_data` goes through.  An  *)
(* entry is an object with a date and a list of blob URIs (a URI is named  *)
(* by its place in the manifest), or something else:                       *)
(*   "not_object"  a value without .get: a string, a number, null, a list; *)
(*                 also the keys and characters the loop gets when the     *)
(*                 body is an object or a string instead of a list         *)
(*   "not_sized"   an object whose blob_uris is null or a number           *)
BlobUri(e, k) == <<"blob", e, k>>
Entry(e, n) ==
    [date |-> e, kind |-> "object", blob_uris |-> [k \in 1..n |-> BlobUri(e, k)]]
Malformed(e, kind) == [date |-> e, kind |-> kind, blob_uris |-> <<>>]

RECURSIVE SumSeq(_)
SumSeq(s) == IF s = <<>> THEN 0 ELSE Head(s) + SumSeq(Tail(s))

EntryShapes ==
    [kind : {"object"}, n : 0..MaxBlobs]
        \cup [kind : {"not_object", "not_sized"}, n : {0}]

Shapes ==
    UNION {{sh \in [1..n -> EntryShapes] :
                SumSeq([k \in 1..n |-> sh[k].n]) <= MaxBlobs} : n \in 0..MaxEntries}

MakeEntry(e, sh) ==
    IF sh.kind = "object" THEN Entry(e, sh.n) ELSE Malformed(e, sh.kind)

Manifests == {[e \in 1..Len(sh) |-> MakeEntry(e, sh[e])] : sh \in Shapes}

(* The rows of the chunks, the last chunk first. *)
RECURSIVE ConcatRows_reversed(_)
ConcatRows_reversed(dfs) ==
    IF dfs = <<>> THEN <<>> ELSE ConcatRows_reversed(Tail(dfs)) \o Head(dfs).rows

(* pd.concat(all_dataframes, ignore_index=True): the rows of the chunks in *)
(* list order, the union of their columns.                                 *)
RECURSIVE ConcatRows(_)
ConcatRows(dfs) ==
    IF dfs = <<>> THEN <<>> ELSE Head(dfs).rows \o ConcatRows(Tail(dfs))

concat(dfs) ==
    Table(UNION {dfs[k].cols : k \in 1..Len(dfs)}, ConcatRows(dfs))

(* Texts are sequences of characters. *)
DigitChars == <<"0", "1", "2", "3", "4", "5", "6", "7", "8", "9">>
DayNames ==
    <<<<"M", "o", "n", "d", "a", "y">>, <<"T", "u", "e", "s", "d", "a", "y">>,
      <<"W", "e", "d", "n", "e", "s", "d", "a", "y">>,
      <<"T", "h", "u", "r", "s", "d", "a", "y">>, <<"F", "r", "i", "d", "a", "y">>,
      <<"S", "a", "t", "u", "r", "d", "a", "y">>, <<"S", "u", "n", "d", "a", "y">>>>

RECURSIVE Decimal(_)
Decimal(n) ==
    IF n < 10 THEN <<DigitChars[n + 1]>>
    ELSE Decimal(n \div 10) \o <<DigitChars[(n % 10) + 1]>>
TwoDigits(n) == <<DigitChars[(n \div 10) + 1], DigitChars[(n % 10) + 1]>>

(* The calendar date of day d of the epoch (day 0 is 1970-01-01). *)
CivilFromDays(d) ==
    LET z == d + 719468
        era == z \div 146097
        doe == z - era * 146097
        yoe == (doe - doe \div 1460 + doe \div 36524 - doe \div 146096) \div 365
        doy == doe - (365 * yoe + yoe \div 4 - yoe \div 100)
        mp == (5 * doy + 2) \div 153
        m == IF mp < 10 THEN mp + 3 ELSE mp - 9
    IN  [year |-> yoe + era * 400 + (IF m <= 2 THEN 1 ELSE 0),
         month |-> m,
         day |-> doy - (153 * mp + 2) \div 5 + 1]
DateText(d) ==
    LET c == CivilFromDays(d)
    IN  TwoDigits(c.year \div 100) \o TwoDigits(c.year % 100) \o <<"-">>
            \o TwoDigits(c.month) \o <<"-">> \o TwoDigits(c.day)

(* The number a text of digits denotes. *)
RECURSIVE ParseInt(_)
ParseInt(s) ==
    IF s = <<>> THEN 0
    ELSE 10 * ParseInt(SubSeq(s, 1, Len(s) - 1))
            + (CHOOSE n \in 0..9 : DigitChars[n + 1] = s[Len(s)])

(* The day of the epoch of a calendar date. *)
DaysFromCivil(y, m, d) ==
    LET yy == IF m <= 2 THEN y - 1 ELSE y
        era == yy \div 400
        yoe == yy - era * 400
        mp == (m + 9) % 12
        doy == (153 * mp + 2) \div 5 + d - 1
        doe == yoe * 365 + yoe \div 4 - yoe \div 100 + doy
    IN  era * 146097 + doe - 719468

(* The values of the date column: the datetime.date objects dt.date gives, *)
(* or the text pd.read_csv reads; str() of either, as to_csv writes it.    *)
DateObject(d) == [type |-> "datetime.date", day |-> d, chars |-> <<>>]
Text(s) == [type |-> "str", day |-> 0, chars |-> s]
Str(v) == IF v.type = "str" THEN v.chars ELSE DateText(v.day)

(* The time components added to the table: dt.hour, dt.day_name() (day 0   *)
(* of the epoch is a Thursday) and dt.date of the timestamp.               *)
DeriveRow(r) ==
    [user_login |-> r.user_login, hitdttm |-> r.hitdttm, notnull |-> r.notnull,
     hour |-> r.hitdttm % 24,
     day_of_week |-> DayNames[(((r.hitdttm \div 24) + 3) % 7) + 1],
     date |-> DateObject(r.hitdttm \div 24)]

AddTimeComponents(t) ==
    Table(t.cols, [k \in 1..Len(t.rows) |-> DeriveRow(t.rows[k])])

(* A column of the table in which no row holds a value. *)
AllNull(t, col) == \A k \in 1..Len(t.rows) : col \notin t.rows[k].notnull

(* A timestamp written with its date only, whatever the column holds. *)
FormatTimestamp_date_only(t, h) == DateText(h \div 24)

(* The text of a timestamp of the table, as to_csv and astype(str) write   *)
(* it: "YYYY-MM-DD HH:MM:SS", or "YYYY-MM-DD" alone when every timestamp   *)
(* of the column is a midnight.                                            *)
DatesOnly(t) == \A k \in 1..Len(t.rows) : t.rows[k].hitdttm % 24 = 0
FormatTimestamp(t, h) ==
    IF DatesOnly(t) THEN DateText(h \div 24)
    ELSE DateText(h \div 24) \o <<" ">> \o TwoDigits(h % 24)
            \o <<":", "0", "0", ":", "0", "0">>

(* pd.to_datetime of a text of the CSV: the date, and the hour when the    *)
(* text has a time of day.                                                 *)
ParseTimestamp(s) ==
    DaysFromCivil(ParseInt(SubSeq(s, 1, 4)), ParseInt(SubSeq(s, 6, 7)),
                  ParseInt(SubSeq(s, 9, 10))) * 24
        + (IF Len(s) > 10 THEN ParseInt(SubSeq(s, 12, 13)) ELSE 0)

(* One line of the CSV: str() of every value of the row. *)
CsvRecord(t, r) ==
    [user_login |-> r.user_login, hitdttm |-> FormatTimestamp(t, r.hitdttm),
     hour |-> Decimal(r.hour), day_of_week |-> r.day_of_week,
     date |-> Str(r.date), notnull |-> r.notnull]

RequiredColumns == {"user_login", "hitdttm", "hour", "day_of_week", "date"}

(* df.to_csv(raw_file, index=False): a header naming the columns and one   *)
(* record per row, in row order.                                           *)
to_csv(t) ==
    [header |-> RequiredColumns \cup t.cols,
     records |-> [k \in 1..Len(t.rows) |-> CsvRecord(t, t.rows[k])]]

(* data_explorer.py: pd.read_csv, which reads the hour as an integer and   *)
(* the timestamp, the day name and the date as text, then pd.to_datetime   *)
(* of the timestamp column.                                                *)
LoadRecord(c) ==
    [user_login |-> c.user_login, hitdttm |-> ParseTimestamp(c.hitdttm),
     hour |-> ParseInt(c.hour), day_of_week |-> c.day_of_week,
     date |-> Text(c.date), notnull |-> c.notnull]

read_csv(csv) ==
    Table(csv.header \ RequiredColumns,
          [k \in 1..Len(csv.records) |-> LoadRecord(csv.records[k])])

(* explore_data: whether it found the file, the table it holds, where it  *)
(* is ("menu": waiting for a choice, "returned", "crashed": ended by an    *)
(* uncaught exception) and the names it exported the table under.          *)
NotFound ==
    [found |-> FALSE, table |-> Table({}, <<>>), at |-> "returned", exported |-> {}]
Loaded(t) == [found |-> TRUE, table |-> t, at |-> "menu", exported |-> {}]

(* The sections generate_summary_report appends to the report. *)
ReportSections(t) ==
    <<"BASIC STATISTICS", "TOP 10 MOST ACTIVE USERS">>
        \o (IF "label" \in t.cols THEN <<"COPILOT FEATURE USAGE">> ELSE <<>>)
        \o (IF "language" \in t.cols THEN <<"TOP PROGRAMMING LANGUAGES">> ELSE <<>>)
        \o <<"USAGE PATTERNS">>
        \o (IF "lines" \in t.cols /\ "chars" \in t.cols
            THEN <<"CODE METRICS">> ELSE <<>>)

(* The key insights printed after the report is saved; the lines printed   *)
(* before the top language is looked up.                                   *)
InsightsHead == <<"Total Interactions", "Active Users">>
Insights(t) ==
    InsightsHead
        \o (IF "language" \in t.cols THEN <<"Top Language">> ELSE <<>>)
        \o <<"Peak Hour", "Most Active Day">>

NoReport == [file |-> <<>>, printed |-> <<>>]

(* df.groupby('user_login').agg(...): one row per distinct user_login,     *)
(* with its number of interactions.                                        *)
UserSummary(t) ==
    [u \in {t.rows[k].user_login : k \in 1..Len(t.rows)} |->
        Cardinality({k \in 1..Len(t.rows) : t.rows[k].user_login = u})]

(***************************************************************************)
(* Output files                                                            *)
(***************************************************************************)
OutputDirs == {"out", "out/plots", "out/reports", "out/data"}
RawCsv == "out/data/raw_copilot_data.csv"
SummaryReport == "out/reports/summary_report.txt"
UserCsv == "out/data/user_activity_summary.csv"
LanguageCsv == "out/data/language_summary.csv"
DailyCsv == "out/data/daily_activity_summary.csv"
PlotAlways ==
    {"out/plots/user_engagement.png", "out/plots/feature_usage.png",
     "out/plots/time_patterns.png", "out/plots/environment_analysis.png"}
PlotLanguage == "out/plots/language_analysis.png"

(* datetime.now().strftime("%Y%m%d_%H%M%S"): the local date and the hour,  *)
(* minute and second the wall clock shows; the microseconds are dropped.   *)
DirStamp(c, zone) ==
    LET wall == WallSecs(c, zone)
    IN  <<c.today, wall \div 3600, (wall \div 60) % 60, wall % 60>>

(* f"copilot_analysis_{enterprise}_{timestamp}" *)
TimestampedDir(e, c, zone) == <<"copilot_analysis", e, DirStamp(c, zone)>>

(* Path(output_dir or f"copilot_analysis_..."): the directory given with   *)
(* --output, the timestamped one when the option is omitted or empty.      *)
NoPath == <<>>
ResolveOutputDir(out, e, c, zone) ==
    IF out = None \/ out = Some(NoPath) THEN TimestampedDir(e, c, zone) ELSE out[1]

(* The directory a run described by [enterprise, clock, output] creates.   *)
RunDir(r, zone) == ResolveOutputDir(r.output, r.enterprise, r.clock, zone)

(* The working directory: it holds the regular file ExistingFile and no    *)
(* directory named "missing" or "copilot_analysis_octo".                   *)
GivenDir == <<"my_analysis_dir">>
NestedDir == <<"missing", "out">>
ExistingFile == <<"notes.txt">>
SlashEnterprise == "octo/eu"

(* self.output_dir.mkdir(exist_ok=True), without parents=True: it raises   *)
(* FileNotFoundError when the parent of the path does not exist (a path    *)
(* given with a slash, or an enterprise with a slash in the generated      *)
(* name) and FileExistsError when the path is a file.                      *)
MkdirError(out, e) ==
    IF out = None \/ out = Some(NoPath)
    THEN (IF e = SlashEnterprise THEN "FileNotFoundError" ELSE "none")
    ELSE IF out = Some(NestedDir) THEN "FileNotFoundError"
    ELSE IF out = Some(ExistingFile) THEN "FileExistsError"
    ELSE "none"

(* The names typed at "Enter filename (without .csv)": nothing, a new      *)
(* name, the path of the raw CSV of the run.                               *)
RawCsvStem == "out/data/raw_copilot_data"
ExportNames == {"", "filtered", RawCsvStem}

(* main computing the default since as today minus 14 days. *)
MainDefaultSince_14(c) == Date(c.today - 14)

(* The default window, as __init__ and as main compute it. *)
InitDefaultUntil(c) == Date(c.today - DefaultUntilBack)
InitDefaultSince(c) == Date(c.today - DefaultSinceBack)
MainDefaultUntil(c) == Date(c.today - DefaultUntilBack)
MainDefaultSince(c) == Date(c.today - DefaultSinceBack)

(***************************************************************************)
(* Initial states                                                          *)
(***************************************************************************)
Midday == Instant(Today, 43200, 0)

(* The pipeline specification runs at midday, all readings of the clock    *)
(* falling in the same half second.  Its windows: the default window, and  *)
(* one window for each way validation can fail.                            *)
Windows ==
    {<<Date(Today - DefaultSinceBack), Date(Today - DefaultUntilBack)>>,
     <<Date(Today - 1), Date(Today - 3)>>,
     <<Date(Today - 20), Date(Today - 1)>>,
     <<Date(Today - 400), Date(Today - 390)>>,
     <<BadDate, Date(Today - 1)>>}

Blank ==
    /\ requests = <<>>
    /\ responses = <<>>
    /\ steps = <<>>
    /\ fs = {}
    /\ log = <<>>
    /\ json_data = <<>>
    /\ i = 1
    /\ j = 1
    /\ all_dataframes = <<>>
    /\ df = None
    /\ exit_code = NoExit
    /\ crashed = FALSE
    /\ raw_csv = None
    /\ report = NoReport
    /\ user_summary = None
    /\ output_dir = None
    /\ explored = None
    /\ init_today = None

(* main is about to build the analyzer with the window since_date,         *)
(* until_date given on the command line, in a working directory without    *)
(* earlier runs; the simple script is about to start.                      *)
Fresh ==
    /\ pc = "start"
    /\ main_today = IF variant = "complete" THEN Some(clock) ELSE None
    /\ enterprise = "octo"
    /\ argv = [since |-> Some(since_date), until |-> Some(until_date), output |-> None]
    /\ earlier = {}
    /\ Blank

Init ==
    /\ variant \in Variants
    /\ token \in Tokens
    /\ \E w \in Windows : since_date = w[1] /\ until_date = w[2]
    /\ clock = Midday
    /\ ticks = 0
    /\ tz = NoDst
    /\ Fresh

(***************************************************************************)
(* The ways a step ends the run                                            *)
(***************************************************************************)
(* sys.exit(1) *)
SysExit ==
    /\ pc' = "exit"
    /\ exit_code' = Exited(ExitFailure)
    /\ crashed' = FALSE

(* An exception nothing catches: the interpreter prints the traceback and  *)
(* exits with status 1.                                                    *)
Uncaught ==
    /\ pc' = "exit"
    /\ exit_code' = Exited(1)
    /\ crashed' = TRUE

Goto(p) ==
    /\ pc' = p
    /\ UNCHANGED <<exit_code, crashed>>

(***************************************************************************)
(* copilot_dda_complete.py                                                 *)
(***************************************************************************)
(* __init__ with the directories created before the token is read. *)
Construct_mkdir_first ==
    /\ pc = "start"
    /\ steps' = Append(steps, "construct")
    /\ variant = "complete"
    /\ \E stamp \in Advance(clock, ticks, tz) :
       \E today \in Advance(stamp.now, stamp.left, tz) :
        /\ output_dir' =
               Some(ResolveOutputDir(argv.output, enterprise, stamp.now, tz))
        /\ fs' = fs \cup OutputDirs
        /\ IF TokenMissing(token)
           THEN /\ log' = Append(log, "token_not_set")
                /\ SysExit
                /\ clock' = stamp.now
                /\ ticks' = stamp.left
                /\ UNCHANGED <<since_date, until_date, init_today>>
           ELSE /\ init_today' = Some(today.now)
                /\ clock' = today.now
                /\ ticks' = today.left
                /\ until_date' = IF until_date = Falsy
                                 THEN InitDefaultUntil(today.now) ELSE until_date
                /\ since_date' = IF since_date = Falsy
                                 THEN InitDefaultSince(today.now) ELSE since_date
                /\ Goto("validate")
                /\ UNCHANGED log
    /\ df' = None
    /\ UNCHANGED <<environment, main_today, written, requests, responses,
                   json_data, i, j, all_dataframes>>

(* main up to the call of the constructor: it reads the clock, and         *)
(* argparse fills in the default since and until for the options that were *)
(* omitted.                                                                *)
Main ==
    /\ pc = "main"
    /\ variant = "complete"
    /\ \E today \in Advance(clock, ticks, tz) :
        /\ main_today' = Some(today.now)
        /\ clock' = today.now
        /\ ticks' = today.left
        /\ since_date' = IF argv.since = None THEN MainDefaultSince(today.now)
                         ELSE argv.since[1]
        /\ until_date' = IF argv.until = None THEN MainDefaultUntil(today.now)
                         ELSE argv.until[1]
    /\ Goto("start")
    /\ UNCHANGED <<environment, init_today, output_dir, written, requests,
                   responses, steps, fs, log, json_data, i, j, all_dataframes, df>>

(* main builds the analyzer: __init__ reads the token (and exits without   *)
(* it), reads the clock and fills in the window where it got None or "",   *)
(* reads the clock again for the name of the output directory, then        *)
(* creates the directory and its three subdirectories.  An exception of    *)
(* the first mkdir is not caught: nothing is created and the run ends with *)
(* a traceback.                                                            *)
Construct ==
    /\ pc = "start"
    /\ steps' = Append(steps, "construct")
    /\ variant = "complete"
    /\ IF TokenMissing(token)
       THEN /\ log' = Append(log, "token_not_set")
            /\ SysExit
            /\ UNCHANGED <<fs, since_date, until_date, output_dir, clock,
                           ticks, init_today>>
       ELSE \E today \in Advance(clock, ticks, tz) :
            \E stamp \in Advance(today.now, today.left, tz) :
            /\ init_today' = Some(today.now)
            /\ clock' = stamp.now
            /\ ticks' = stamp.left
            /\ until_date' = IF until_date = Falsy
                             THEN InitDefaultUntil(today.now) ELSE until_date
            /\ since_date' = IF since_date = Falsy
                             THEN InitDefaultSince(today.now) ELSE since_date
            /\ output_dir' =
                   Some(ResolveOutputDir(argv.output, enterprise, stamp.now, tz))
            /\ UNCHANGED log
            /\ IF MkdirError(argv.output, enterprise) = "none"
               THEN /\ fs' = fs \cup OutputDirs
                    /\ Goto("validate")
               ELSE /\ Uncaught
                    /\ UNCHANGED fs
    /\ df' = None
    /\ UNCHANGED <<environment, main_today, written, requests, responses,
                   json_data, i, j, all_dataframes>>

(* collect_data validating the window without the except ValueError: a     *)
(* string strptime rejects ends the run with a traceback.                  *)
ValidateDateRange_no_except ==
    /\ pc = "validate"
    /\ steps' = Append(steps, "validate")
    /\ variant = "complete"
    /\ \E today \in Advance(clock, ticks, tz) :
        /\ clock' = IF ReadsClock(since_date, until_date, tz)
                    THEN today.now ELSE clock
        /\ ticks' = IF ReadsClock(since_date, until_date, tz)
                    THEN today.left ELSE ticks
        /\ LET r == validate_date_range(since_date, until_date,
                                        NowEpoch(today.now, tz), tz)
           IN  IF r = "valid"
               THEN Goto("probe") /\ UNCHANGED log
               ELSE IF r = "date_parse_error"
               THEN Uncaught /\ UNCHANGED log
               ELSE Goto("collect_failed") /\ log' = Append(log, r)
    /\ UNCHANGED <<settings, output_dir, written, requests, responses, fs,
                   json_data, i, j, all_dataframes, df>>

(* collect_data, its first step: validate the window, return False if it   *)
(* is not valid.  The 365-day rule reads the clock.                        *)
ValidateDateRange ==
    /\ pc = "validate"
    /\ steps' = Append(steps, "validate")
    /\ variant = "complete"
    /\ \E today \in Advance(clock, ticks, tz) :
        /\ clock' = IF ReadsClock(since_date, until_date, tz)
                    THEN today.now ELSE clock
        /\ ticks' = IF ReadsClock(since_date, until_date, tz)
                    THEN today.left ELSE ticks
        /\ LET r == validate_date_range(since_date, until_date,
                                        NowEpoch(today.now, tz), tz)
           IN  IF r = "valid"
               THEN Goto("probe") /\ UNCHANGED log
               ELSE Goto("collect_failed") /\ log' = Append(log, r)
    /\ UNCHANGED <<settings, output_dir, written, requests, responses, fs,
                   json_data, i, j, all_dataframes, df>>

(* The probe without raise_for_status: an error status goes unnoticed. *)
Probe_no_raise_for_status ==
    /\ pc = "probe"
    /\ steps' = Append(steps, "probe")
    /\ variant = "complete"
    /\ requests' = Append(requests, Request("probe", ProbeUrl, CompleteHeaders(token)))
    /\ \E o \in ApiOutcomes :
        /\ responses' = Append(responses, ApiResponse(o))
        /\
          \/ /\ o \in {"ok", "status_4xx", "status_5xx"}
             /\ Goto("manifest")
             /\ UNCHANGED log
          \/ /\ o \in {"transport", "bad_json"}
             /\ Goto("collect_failed")
             /\ log' = Append(log, "probe_failed")
          \/ /\ o = "other_json"
             /\ Uncaught
             /\ UNCHANGED log
    /\ UNCHANGED <<config, output_dir, written, fs, json_data, i, j, all_dataframes, df>>

(* collect_data, "Test API connection": GET rate_limit with the headers.   *)
(* except RequestException catches the transport errors and the HTTPError  *)
(* of raise_for_status.  A body that does not decode raises                *)
(* requests.exceptions.JSONDecodeError (a RequestException) in requests    *)
(* 2.27 and later, and a plain ValueError, which nothing catches, before.  *)
(* A body that is not an object of objects raises AttributeError in the    *)
(* line that logs the remaining rate limit, and nothing catches it.        *)
Probe ==
    /\ pc = "probe"
    /\ steps' = Append(steps, "probe")
    /\ variant = "complete"
    /\ requests' = Append(requests, Request("probe", ProbeUrl, CompleteHeaders(token)))
    /\ \E o \in ApiOutcomes :
        /\ responses' = Append(responses, ApiResponse(o))
        /\
          \/ /\ o = "ok"
             /\ Goto("manifest")
             /\ UNCHANGED log
          \/ /\ o \in {"transport", "status_4xx", "status_5xx", "bad_json"}
             /\ Goto("collect_failed")
             /\ log' = Append(log, "probe_failed")
          \/ /\ o \in {"bad_json", "other_json"}
             /\ Uncaught
             /\ UNCHANGED log
    /\ UNCHANGED <<config, output_dir, written, fs, json_data, i, j, all_dataframes, df>>

(* The manifest request with its errors swallowed: the run goes on with an *)
(* empty manifest.                                                         *)
FetchManifest_swallow ==
    /\ pc = "manifest"
    /\ steps' = Append(steps, "manifest")
    /\ variant = "complete"
    /\ requests' = Append(requests,
            Request("manifest", ManifestUrl(since_date, until_date),
                    CompleteHeaders(token)))
    /\ \E o \in ApiOutcomes :
        /\ responses' = Append(responses, ApiResponse(o))
        /\
          \/ /\ o = "ok"
             /\ \E m \in Manifests : json_data' = m
             /\ Goto("blobs")
             /\ UNCHANGED log
          \/ /\ o # "ok"
             /\ Goto("blobs")
             /\ log' = Append(log, "error_occurred")
             /\ UNCHANGED json_data
    /\ i' = 1
    /\ j' = 1
    /\ all_dataframes' = <<>>
    /\ UNCHANGED <<config, output_dir, written, fs, df>>

(* collect_data, "Fetch data from API": one GET of the direct-data         *)
(* endpoint.  HTTPError and every other exception of the request, of       *)
(* json() and of len(json_data) return False.  The entries of the body     *)
(* are looked at in the loop only.                                         *)
FetchManifest ==
    /\ pc = "manifest"
    /\ steps' = Append(steps, "manifest")
    /\ variant = "complete"
    /\ requests' = Append(requests,
            Request("manifest", ManifestUrl(since_date, until_date),
                    CompleteHeaders(token)))
    /\ \E o \in ApiOutcomes :
        /\ responses' = Append(responses, ApiResponse(o))
        /\
          \/ /\ o = "ok"
             /\ \E m \in Manifests : json_data' = m
             /\ Goto("blobs")
             /\ UNCHANGED log
          \/ /\ IsHttpError(o)
             /\ Goto("collect_failed")
             /\ log' = Append(log, "http_error")
             /\ UNCHANGED json_data
          \/ /\ o \in {"transport", "bad_json", "other_json"}
             /\ Goto("collect_failed")
             /\ log' = Append(log, "error_occurred")
             /\ UNCHANGED json_data
    /\ i' = 1
    /\ j' = 1
    /\ all_dataframes' = <<>>
    /\ UNCHANGED <<config, output_dir, written, fs, df>>

(* The outer loop reaches an entry that is not an object, or whose         *)
(* blob_uris has no length: entry.get or len(blob_uris) raises, outside    *)
(* every try, and the run ends with a traceback.                           *)
MalformedEntry ==
    /\ pc = "blobs"
    /\ UNCHANGED steps
    /\ variant = "complete"
    /\ i <= Len(json_data)
    /\ json_data[i].kind # "object"
    /\ Uncaught
    /\ UNCHANGED <<config, output_dir, written, requests, responses, fs, log,
                   json_data, i, j, all_dataframes, df>>

(* The inner loop is done for entry i: the outer loop takes the next one.  *)
NextEntry ==
    /\ pc = "blobs"
    /\ UNCHANGED steps
    /\ variant = "complete"
    /\ i <= Len(json_data)
    /\ json_data[i].kind = "object"
    /\ j > Len(json_data[i].blob_uris)
    /\ i' = i + 1
    /\ j' = 1
    /\ UNCHANGED <<config, output_dir, written, pc, requests, responses, fs, log, json_data,
                   all_dataframes, df, exit_code, crashed>>

(* The inner loop asking again for a blob whose download failed. *)
FetchBlob_retry ==
    /\ pc = "blobs"
    /\ steps' = Append(steps, "blob")
    /\ variant = "complete"
    /\ i <= Len(json_data)
    /\ j <= Len(json_data[i].blob_uris)
    /\ requests' = Append(requests, Request("blob", json_data[i].blob_uris[j], NoHeaders))
    /\ \E r \in BlobOutcomes :
          /\ responses' = Append(responses, r)
          /\ IF r.result = "ok"
             THEN /\ all_dataframes' = Append(all_dataframes, r.chunk)
                  /\ j' = j + 1
                  /\ UNCHANGED log
             ELSE /\ log' = Append(log, "blob_error")
                  /\ j' = IF Len(requests) < 6 THEN j ELSE j + 1
                  /\ UNCHANGED all_dataframes
    /\ UNCHANGED <<config, output_dir, written, pc, fs, json_data, i, df, exit_code, crashed>>

(* The inner loop sending the API headers to the blob URI. *)
FetchBlob_with_headers ==
    /\ pc = "blobs"
    /\ steps' = Append(steps, "blob")
    /\ variant = "complete"
    /\ i <= Len(json_data)
    /\ j <= Len(json_data[i].blob_uris)
    /\ requests' = Append(requests, Request("blob", json_data[i].blob_uris[j],
                                            CompleteHeaders(token)))
    /\ \E r \in BlobOutcomes :
          /\ responses' = Append(responses, r)
          /\ IF r.result = "ok"
             THEN /\ all_dataframes' = Append(all_dataframes, r.chunk)
                  /\ UNCHANGED log
             ELSE /\ log' = Append(log, "blob_error")
                  /\ UNCHANGED all_dataframes
    /\ j' = j + 1
    /\ UNCHANGED <<config, output_dir, written, pc, fs, json_data, i, df, exit_code, crashed>>

(* One pass of the inner loop: GET the blob URI without headers, decode    *)
(* the body, append the chunk.  except Exception logs whatever went wrong  *)
(* and the loop goes on.                                                   *)
FetchBlob ==
    /\ pc = "blobs"
    /\ steps' = Append(steps, "blob")
    /\ variant = "complete"
    /\ i <= Len(json_data)
    /\ j <= Len(json_data[i].blob_uris)
    /\ requests' = Append(requests, Request("blob", json_data[i].blob_uris[j], NoHeaders))
    /\ \E r \in BlobOutcomes :
          /\ responses' = Append(responses, r)
          /\ IF r.result = "ok"
             THEN /\ all_dataframes' = Append(all_dataframes, r.chunk)
                  /\ UNCHANGED log
             ELSE /\ log' = Append(log, "blob_error")
                  /\ UNCHANGED all_dataframes
    /\ j' = j + 1
    /\ UNCHANGED <<config, output_dir, written, pc, fs, json_data, i, df, exit_code, crashed>>

(* "Combine all data" without the test for an empty list. *)
Combine_no_guard ==
    /\ pc = "blobs"
    /\ steps' = Append(steps, "combine")
    /\ variant = "complete"
    /\ i > Len(json_data)
    /\ df' = Some(AddTimeComponents(concat(all_dataframes)))
    /\ fs' = fs \cup {RawCsv}
    /\ raw_csv' = Some(to_csv(AddTimeComponents(concat(all_dataframes))))
    /\ Goto("report")
    /\ UNCHANGED log
    /\ UNCHANGED <<config, output_dir, explored, report, user_summary, requests, responses, json_data,
                   i, j, all_dataframes>>

(* "Combine all data" without the write of the raw CSV. *)
Combine_no_csv ==
    /\ pc = "blobs"
    /\ steps' = Append(steps, "combine")
    /\ variant = "complete"
    /\ i > Len(json_data)
    /\ IF all_dataframes # <<>>
       THEN /\ df' = Some(AddTimeComponents(concat(all_dataframes)))
            /\ Goto("report")
            /\ UNCHANGED log
       ELSE /\ log' = Append(log, "no_data_collected")
            /\ Goto("collect_failed")
            /\ UNCHANGED df
    /\ UNCHANGED <<fs, raw_csv>>
    /\ UNCHANGED <<config, output_dir, explored, report, user_summary, requests, responses, json_data,
                   i, j, all_dataframes>>

(* collect_data, "Combine all data": concatenate, add the time components, *)
(* write the raw CSV, return True; with no chunk, warn and return False.   *)
Combine ==
    /\ pc = "blobs"
    /\ steps' = Append(steps, "combine")
    /\ variant = "complete"
    /\ i > Len(json_data)
    /\ IF all_dataframes # <<>>
       THEN /\ df' = Some(AddTimeComponents(concat(all_dataframes)))
            /\ fs' = fs \cup {RawCsv}
            /\ raw_csv' = Some(to_csv(AddTimeComponents(concat(all_dataframes))))
            /\ Goto("report")
            /\ UNCHANGED log
       ELSE /\ log' = Append(log, "no_data_collected")
            /\ Goto("collect_failed")
            /\ UNCHANGED <<df, fs, raw_csv>>
    /\ UNCHANGED <<config, output_dir, explored, report, user_summary, requests, responses, json_data,
                   i, j, all_dataframes>>

(* main without its `if not success: sys.exit(1)`. *)
CollectFailed_exit_zero ==
    /\ pc = "collect_failed"
    /\ UNCHANGED steps
    /\ variant = "complete"
    /\ pc' = "exit"
    /\ exit_code' = Exited(0)
    /\ UNCHANGED <<config, output_dir, written, requests, responses, fs, log, json_data, i, j,
                   all_dataframes, df, crashed>>

(* run_complete_analysis returns False when collect_data did, and main     *)
(* then calls sys.exit(1).                                                 *)
CollectFailed ==
    /\ pc = "collect_failed"
    /\ UNCHANGED steps
    /\ variant = "complete"
    /\ SysExit
    /\ UNCHANGED <<config, output_dir, written, requests, responses, fs, log, json_data, i, j,
                   all_dataframes, df>>

(* `self.df is None or len(self.df) == 0` *)
NoData == df = None \/ Len(df[1].rows) = 0

(* The rows of the table that hold a language. *)
HasLanguage(r) == "language" \in r.notnull

(* generate_summary_report that keeps in self.df only the rows with a      *)
(* language.                                                               *)
GenerateSummaryReport_dropna ==
    /\ pc = "report"
    /\ steps' = Append(steps, "report")
    /\ IF NoData
       THEN /\ log' = Append(log, "no_data_for_analysis")
            /\ Goto("visualize")
            /\ UNCHANGED <<fs, report, df>>
       ELSE /\ fs' = fs \cup {SummaryReport}
            /\ df' = Some(Table(df[1].cols, SelectSeq(df[1].rows, HasLanguage)))
            /\ UNCHANGED log
            /\ IF "language" \in df[1].cols /\ AllNull(df[1], "language")
               THEN /\ report' = [file |-> ReportSections(df[1]),
                                  printed |-> InsightsHead]
                    /\ Uncaught
               ELSE /\ report' = [file |-> ReportSections(df[1]),
                                  printed |-> Insights(df[1])]
                    /\ Goto("visualize")
    /\ UNCHANGED <<config, output_dir, explored, raw_csv, user_summary, requests, responses, json_data,
                   i, j, all_dataframes>>

(* generate_summary_report: writes the report, then prints the highlights; *)
(* with a language column, value_counts().index[0] raises IndexError when  *)
(* no row has a language.                                                  *)
GenerateSummaryReport ==
    /\ pc = "report"
    /\ steps' = Append(steps, "report")
    /\ IF NoData
       THEN /\ log' = Append(log, "no_data_for_analysis")
            /\ Goto("visualize")
            /\ UNCHANGED <<fs, report>>
       ELSE /\ fs' = fs \cup {SummaryReport}
            /\ UNCHANGED log
            /\ IF "language" \in df[1].cols /\ AllNull(df[1], "language")
               THEN /\ report' = [file |-> ReportSections(df[1]),
                                  printed |-> InsightsHead]
                    /\ Uncaught
               ELSE /\ report' = [file |-> ReportSections(df[1]),
                                  printed |-> Insights(df[1])]
                    /\ Goto("visualize")
    /\ UNCHANGED <<config, output_dir, explored, raw_csv, user_summary, requests, responses, json_data,
                   i, j, all_dataframes, df>>

(* create_visualizations with the language plot drawn unconditionally. *)
CreateVisualizations_always_language ==
    /\ pc = "visualize"
    /\ steps' = Append(steps, "visualize")
    /\ IF NoData
       THEN /\ log' = Append(log, "no_data_for_visualization")
            /\ UNCHANGED fs
       ELSE /\ fs' = fs \cup PlotAlways \cup {PlotLanguage}
            /\ UNCHANGED log
    /\ Goto("export")
    /\ UNCHANGED <<config, output_dir, written, requests, responses, json_data, i, j, all_dataframes, df>>

(* run_complete_analysis calling generate_summary_report again after the   *)
(* visualizations.                                                         *)
CreateVisualizations_report_again ==
    /\ pc = "visualize"
    /\ steps' = Append(steps, "visualize")
    /\ IF NoData
       THEN /\ log' = Append(log, "no_data_for_visualization")
            /\ UNCHANGED fs
       ELSE /\ fs' = fs \cup PlotAlways
                        \cup (IF "language" \in df[1].cols THEN {PlotLanguage} ELSE {})
            /\ UNCHANGED log
    /\ Goto(IF Len(steps) < 12 THEN "report" ELSE "export")
    /\ UNCHANGED <<config, output_dir, written, requests, responses, json_data, i, j, all_dataframes, df>>

(* create_visualizations: the five plots, the language plot only with a    *)
(* language column.                                                        *)
CreateVisualizations ==
    /\ pc = "visualize"
    /\ steps' = Append(steps, "visualize")
    /\ IF NoData
       THEN /\ log' = Append(log, "no_data_for_visualization")
            /\ UNCHANGED fs
       ELSE /\ fs' = fs \cup PlotAlways
                        \cup (IF "language" \in df[1].cols THEN {PlotLanguage} ELSE {})
            /\ UNCHANGED log
    /\ Goto("export")
    /\ UNCHANGED <<config, output_dir, written, requests, responses, json_data, i, j, all_dataframes, df>>

(* export_detailed_data without the daily activity summary. *)
ExportDetailedData_no_daily ==
    /\ pc = "export"
    /\ steps' = Append(steps, "export")
    /\ IF NoData
       THEN /\ log' = Append(log, "no_data_for_export")
            /\ Goto("finish")
            /\ UNCHANGED <<fs, user_summary>>
       ELSE IF {"lines", "chars", "language"} \subseteq df[1].cols
       THEN /\ fs' = fs \cup {UserCsv, LanguageCsv}
            /\ user_summary' = Some(UserSummary(df[1]))
            /\ Goto("finish")
            /\ UNCHANGED log
       ELSE /\ Uncaught
            /\ UNCHANGED <<fs, log, user_summary>>
    /\ UNCHANGED <<config, output_dir, explored, raw_csv, report, requests, responses, json_data, i, j,
                   all_dataframes, df>>

(* export_detailed_data: the first groupby().agg() names the columns       *)
(* lines, chars and language whether the table has them or not, and pandas *)
(* raises KeyError for a column that does not exist.                       *)
ExportDetailedData ==
    /\ pc = "export"
    /\ steps' = Append(steps, "export")
    /\ IF NoData
       THEN /\ log' = Append(log, "no_data_for_export")
            /\ Goto("finish")
            /\ UNCHANGED <<fs, user_summary>>
       ELSE IF {"lines", "chars", "language"} \subseteq df[1].cols
       THEN /\ fs' = fs \cup {UserCsv, LanguageCsv, DailyCsv}
            /\ user_summary' = Some(UserSummary(df[1]))
            /\ Goto("finish")
            /\ UNCHANGED log
       ELSE /\ Uncaught
            /\ UNCHANGED <<fs, log, user_summary>>
    /\ UNCHANGED <<config, output_dir, explored, raw_csv, report, requests, responses, json_data, i, j,
                   all_dataframes, df>>

(* run_complete_analysis returns True and main returns: exit status 0.     *)
Finish ==
    /\ pc = "finish"
    /\ UNCHANGED steps
    /\ pc' = "exit"
    /\ exit_code' = Exited(0)
    /\ UNCHANGED <<config, output_dir, written, requests, responses, fs, log, json_data, i, j,
                   all_dataframes, df, crashed>>

(***************************************************************************)
(* data_explorer.py                                                        *)
(***************************************************************************)
(* explore_data on the raw CSV of the run that has ended, up to the menu:  *)
(* without the file it says so and returns, with it it loads the table and *)
(* shows the menu.                                                         *)
ExploreData ==
    /\ pc = "exit"
    /\ variant = "complete"
    /\ explored = None
    /\ explored' = IF RawCsv \in fs
                   THEN Some(Loaded(read_csv(raw_csv[1])))
                   ELSE Some(NotFound)
    /\ UNCHANGED <<config, output_dir, raw_csv, report, user_summary, pc, requests,
                   responses, steps, fs, log, json_data, i, j, all_dataframes, df,
                   exit_code, crashed>>

(* What is typed at a prompt of the explorer: a line without the blanks    *)
(* around it, or the end of the input (input() raises EOFError).  The      *)
(* value to filter by is a sequence of characters: letters, digits, "-",   *)
(* ":", blanks, and the two characters "." and "(" that mean something     *)
(* else in a regular expression.                                           *)
Typed(line) == <<line>>
Eof == <<>>
MenuInputs ==
    {Typed(c) : c \in {"1", "2", "3", "4", "5", "6", "7", "8", "9"}} \cup {Eof}
ColumnInputs ==
    {Typed("user_login"), Typed("hour"), Typed("language"), Typed("nosuch"), Eof}
ValueInputs ==
    {Typed(<<"A", "L", "I">>), Typed(<<"b", ".", "b">>), Typed(<<>>),
     Typed(<<"(">>), Typed(<<"1", "1">>), Eof}
NameInputs == {Typed(n) : n \in ExportNames} \cup {Eof}

(* The columns of the table the explorer holds. *)
Columns(t) == RequiredColumns \cup t.cols

(* Choice 1: ', '.join(x.unique()[:3]) over the languages of each user     *)
(* raises TypeError when a missing value (NaN) is among the first three    *)
(* distinct values.  The values are not modelled: a missing value after at *)
(* most two rows with a language is among them, after more rows it may be. *)
UserRows(t, u) == SelectSeq(t.rows, LAMBDA r : r.user_login = u)
NullLanguageSure(t) ==
    \E k \in 1..Len(t.rows) :
        LET mine == UserRows(Table(t.cols, SubSeq(t.rows, 1, k)),
                             t.rows[k].user_login)
        IN  /\ ~HasLanguage(t.rows[k])
            /\ Len(SelectSeq(mine, HasLanguage)) <= 2
NullLanguageMaybe(t) == \E k \in 1..Len(t.rows) : ~HasLanguage(t.rows[k])

(* Choice 6.  str(cell), as a sequence of characters, for the columns      *)
(* whose values the table holds: the login, the hour in decimal, the name  *)
(* of the day, the date and the timestamp as to_csv writes them.           *)
LowerCase ==
    <<"a", "b", "c", "d", "e", "f", "g", "h", "i", "j", "k", "l", "m",
      "n", "o", "p", "q", "r", "s", "t", "u", "v", "w", "x", "y", "z">>
UpperCase ==
    <<"A", "B", "C", "D", "E", "F", "G", "H", "I", "J", "K", "L", "M",
      "N", "O", "P", "Q", "R", "S", "T", "U", "V", "W", "X", "Y", "Z">>
LoginText(u) ==
    CASE u = "alice" -> <<"a", "l", "i", "c", "e">>
      [] u = "bob" -> <<"b", "o", "b">>

CellText(t, r, column) ==
    CASE column = "user_login" -> LoginText(r.user_login)
      [] column = "hitdttm" -> FormatTimestamp(t, r.hitdttm)
      [] column = "hour" -> Decimal(r.hour)
      [] column = "day_of_week" -> r.day_of_week
      [] column = "date" -> Str(r.date)

(* re.compile(value, re.IGNORECASE): "(" opens a group that nothing typed  *)
(* closes, and re.error is raised.                                         *)
PatternError(value) == \E n \in 1..Len(value) : value[n] = "("

(* regex.search(text) is not None: somewhere in the text every character   *)
(* of the value finds its like, whatever the case; "." is like any         *)
(* character.  The empty value is found in every text.                     *)
LowerOf ==
    [ch \in {UpperCase[n] : n \in 1..Len(UpperCase)} |->
        LowerCase[CHOOSE n \in 1..Len(UpperCase) : UpperCase[n] = ch]]
Fold(ch) == IF ch \in DOMAIN LowerOf THEN LowerOf[ch] ELSE ch
Contains(text, value) ==
    LET folded == [n \in 1..Len(text) |-> Fold(text[n])]
        wanted == [n \in 1..Len(value) |-> Fold(value[n])]
    IN  \E k \in 1..(Len(text) - Len(value) + 1) :
            \A n \in 1..Len(value) :
                value[n] = "." \/ wanted[n] = folded[k + n - 1]

(* Whether a row is kept.  The values of the optional columns are not      *)
(* modelled: a cell that holds one is kept by the empty value and may be   *)
(* kept by any other; a missing one reads "nan" after astype(str), or      *)
(* stays missing and is dropped by na=False, as the pandas at hand has it. *)
MustMatch(t, r, column, value) ==
    IF column \in RequiredColumns THEN Contains(CellText(t, r, column), value)
    ELSE column \in r.notnull /\ value = <<>>
MayMatch(t, r, column, value) ==
    IF column \in RequiredColumns THEN Contains(CellText(t, r, column), value)
    ELSE column \in r.notnull \/ Contains(<<"n", "a", "n">>, value)

RECURSIVE Pick(_, _, _)
Pick(rows, keep, k) ==
    IF k > Len(rows) THEN <<>>
    ELSE (IF k \in keep THEN <<rows[k]>> ELSE <<>>) \o Pick(rows, keep, k + 1)

(* df[df[column].astype(str).str.contains(value, case=False, na=False)]:   *)
(* the tables it can give, each the rows kept, in row order.               *)
Filtered(t, column, value) ==
    LET sure == {k \in 1..Len(t.rows) : MustMatch(t, t.rows[k], column, value)}
        may == IF column \in RequiredColumns THEN sure
               ELSE {k \in 1..Len(t.rows) : MayMatch(t, t.rows[k], column, value)}
    IN  {Pick(t.rows, sure \cup more, 1) : more \in SUBSET (may \ sure)}

(* Choice 6, for every column and value that can be typed: the explorer    *)
(* as it is when the choice is done.                                       *)
SearchAndFilter(x) ==
    LET t == x.table
        crash == [x EXCEPT !.at = "crashed"]
    IN  UNION {
            IF column = Eof THEN {crash}
            ELSE IF column[1] \notin Columns(t) THEN {x}
            ELSE IF value = Eof \/ PatternError(value[1]) THEN {crash}
            ELSE {IF filtered = <<>> THEN x
                  ELSE IF {"language", "label"} \subseteq Columns(t) THEN x
                  ELSE crash : filtered \in Filtered(t, column[1], value[1])}
            : column \in ColumnInputs, value \in ValueInputs}

(* One pass of the menu loop of explore_data: the choice is read and       *)
(* carried out.  Choices 1 and 2 name the language column and choice 6     *)
(* prints the language and label columns of the rows found: pandas raises  *)
(* KeyError without them, and re.error when the value is no pattern.       *)
(* Choice 4 derives the hour column when the table has none.  Choice 7     *)
(* writes the table to the name typed, whatever file is there.  Choice 8   *)
(* returns; anything else shows the menu again.                            *)
ExploreChoice ==
    /\ explored # None
    /\ explored[1].at = "menu"
    /\ LET x == explored[1]
           t == x.table
           crash == [x EXCEPT !.at = "crashed"]
       IN  \E choice \in MenuInputs :
           \/ /\ choice = Eof
              /\ explored' = Some(crash)
              /\ UNCHANGED raw_csv
           \/ /\ choice = Typed("1")
              /\ \E raises \in BOOLEAN :
                    /\ NullLanguageSure(t) => raises
                    /\ raises => NullLanguageMaybe(t)
                    /\ explored' = Some(IF "language" \notin Columns(t) \/ raises
                                        THEN crash ELSE x)
              /\ UNCHANGED raw_csv
           \/ /\ choice = Typed("2")
              /\ explored' = Some(IF "language" \notin Columns(t) THEN crash ELSE x)
              /\ UNCHANGED raw_csv
           \/ /\ choice = Typed("4")
              /\ explored' = Some(IF "hour" \in Columns(t) THEN x
                                  ELSE [x EXCEPT !.table = AddTimeComponents(t)])
              /\ UNCHANGED raw_csv
           \/ /\ choice = Typed("6")
              /\ \E after \in SearchAndFilter(x) : explored' = Some(after)
              /\ UNCHANGED raw_csv
           \/ /\ choice = Typed("7")
              /\ \E name \in NameInputs :
                    /\ explored' = Some(
                          IF name = Eof THEN crash
                          ELSE IF name[1] = "" THEN x
                          ELSE [x EXCEPT !.exported = @ \cup {name[1]}])
                    /\ raw_csv' = IF name = Typed(RawCsvStem)
                                  THEN Some(to_csv(t)) ELSE raw_csv
           \/ /\ choice = Typed("8")
              /\ explored' = Some([x EXCEPT !.at = "returned"])
              /\ UNCHANGED raw_csv
           \/ /\ choice \in {Typed("3"), Typed("5"), Typed("9")}
              /\ UNCHANGED <<explored, raw_csv>>
    /\ UNCHANGED <<config, output_dir, report, user_summary, pc, requests,
                   responses, steps, fs, log, json_data, i, j, all_dataframes, df,
                   exit_code, crashed>>

(***************************************************************************)
(* copilot_dda.py: the same steps at module level, each failure a          *)
(* sys.exit(1), and no aggregation or report.                              *)
(***************************************************************************)
SimpleTokenCheck ==
    /\ pc = "start"
    /\ steps' = Append(steps, "construct")
    /\ variant = "simple"
    /\ IF TokenMissing(token)
       THEN /\ log' = Append(log, "token_not_set")
            /\ SysExit
       ELSE /\ Goto("validate")
            /\ UNCHANGED log
    /\ UNCHANGED <<config, output_dir, written, requests, responses, fs, json_data, i, j,
                   all_dataframes, df>>

SimpleValidate ==
    /\ pc = "validate"
    /\ steps' = Append(steps, "validate")
    /\ variant = "simple"
    /\ LET r == simple_validate(since_date, until_date, tz)
       IN  IF r = "valid"
           THEN Goto("probe") /\ UNCHANGED log
           ELSE SysExit /\ log' = Append(log, r)
    /\ UNCHANGED <<config, output_dir, written, requests, responses, fs, json_data, i, j,
                   all_dataframes, df>>

SimpleProbe ==
    /\ pc = "probe"
    /\ steps' = Append(steps, "probe")
    /\ variant = "simple"
    /\ requests' = Append(requests, Request("probe", ProbeUrl, SimpleHeaders(token)))
    /\ \E o \in ApiOutcomes :
        /\ responses' = Append(responses, ApiResponse(o))
        /\
          \/ /\ o = "ok"
             /\ Goto("manifest")
             /\ UNCHANGED log
          \/ /\ o \in {"transport", "status_4xx", "status_5xx", "bad_json"}
             /\ SysExit
             /\ log' = Append(log, "probe_failed")
          \/ /\ o \in {"bad_json", "other_json"}
             /\ Uncaught
             /\ UNCHANGED log
    /\ UNCHANGED <<config, output_dir, written, fs, json_data, i, j, all_dataframes, df>>

SimpleManifest ==
    /\ pc = "manifest"
    /\ steps' = Append(steps, "manifest")
    /\ variant = "simple"
    /\ requests' = Append(requests,
            Request("manifest", ManifestUrl(since_date, until_date),
                    SimpleHeaders(token)))
    /\ \E o \in ApiOutcomes :
        /\ responses' = Append(responses, ApiResponse(o))
        /\
          \/ /\ o = "ok"
             /\ \E m \in Manifests : json_data' = m
             /\ Goto("blobs")
             /\ UNCHANGED log
          \/ /\ IsHttpError(o)
             /\ SysExit
             /\ log' = Append(log, "http_error")
             /\ UNCHANGED json_data
          \/ /\ o \in {"transport", "bad_json", "other_json"}
             /\ SysExit
             /\ log' = Append(log, "error_occurred")
             /\ UNCHANGED json_data
    /\ i' = 1
    /\ j' = 1
    /\ UNCHANGED <<config, output_dir, written, fs, all_dataframes, df>>

(* The loop reaches an entry that is not an object, or whose blob_uris has *)
(* no length: the script ends with a traceback.                            *)
SimpleMalformedEntry ==
    /\ pc = "blobs"
    /\ UNCHANGED steps
    /\ variant = "simple"
    /\ i <= Len(json_data)
    /\ json_data[i].kind # "object"
    /\ Uncaught
    /\ UNCHANGED <<config, output_dir, written, requests, responses, fs, log,
                   json_data, i, j, all_dataframes, df>>

SimpleNextEntry ==
    /\ pc = "blobs"
    /\ UNCHANGED steps
    /\ variant = "simple"
    /\ i <= Len(json_data)
    /\ json_data[i].kind = "object"
    /\ j > Len(json_data[i].blob_uris)
    /\ i' = i + 1
    /\ j' = 1
    /\ UNCHANGED <<config, output_dir, written, pc, requests, responses, fs, log, json_data,
                   all_dataframes, df, exit_code, crashed>>

(* GET the blob URI without headers, decode and print the chunk; both      *)
(* except clauses log and the loop goes on.                                *)
SimpleFetchBlob ==
    /\ pc = "blobs"
    /\ steps' = Append(steps, "blob")
    /\ variant = "simple"
    /\ i <= Len(json_data)
    /\ j <= Len(json_data[i].blob_uris)
    /\ requests' = Append(requests, Request("blob", json_data[i].blob_uris[j], NoHeaders))
    /\ \E r \in BlobOutcomes :
          /\ responses' = Append(responses, r)
          /\ IF r.result = "ok"
             THEN UNCHANGED log
             ELSE IF r.result = "status_4xx"
             THEN log' = Append(log, "blob_http_error")
             ELSE log' = Append(log, "blob_error")
    /\ j' = j + 1
    /\ UNCHANGED <<config, output_dir, written, pc, fs, json_data, i, all_dataframes, df,
                   exit_code, crashed>>

(* The script runs off its end: exit status 0. *)
SimpleDone ==
    /\ pc = "blobs"
    /\ UNCHANGED steps
    /\ variant = "simple"
    /\ i > Len(json_data)
    /\ pc' = "exit"
    /\ exit_code' = Exited(0)
    /\ UNCHANGED <<config, output_dir, written, requests, responses, fs, log, json_data, i, j,
                   all_dataframes, df, crashed>>

(***************************************************************************)
(* Specifications                                                          *)
(***************************************************************************)
Next ==
    \/ Construct
    \/ ValidateDateRange
    \/ Probe
    \/ FetchManifest
    \/ MalformedEntry
    \/ NextEntry
    \/ FetchBlob
    \/ Combine
    \/ CollectFailed
    \/ GenerateSummaryReport
    \/ CreateVisualizations
    \/ ExportDetailedData
    \/ Finish
    \/ ExploreData
    \/ ExploreChoice
    \/ SimpleTokenCheck
    \/ SimpleValidate
    \/ SimpleProbe
    \/ SimpleManifest
    \/ SimpleMalformedEntry
    \/ SimpleNextEntry
    \/ SimpleFetchBlob
    \/ SimpleDone

Spec == Init /\ [][Next]_vars

(* The runs up to the answer to the manifest request, over many windows,   *)
(* times of day and daylight-saving changes, the clock moving on once.     *)
SinceBack == {0, 1, 13, 14, 15, 16, 364, 365, 366, 380}
Spans == {0 - 2, 0 - 1, 0, 1, 13, 14, 15, 30}
ClockSecs == {0, 3600, 43200, 86399}
ClockMicros == {0, TickMicros}
DstAfterSince == {0, 5, 14, 100}

(* Zones that change at 02:00, on or after the since day. *)
Zones(s) ==
    {NoDst} \cup {Dst(k, s + n, 2 * 3600) : k \in {"spring", "fall"},
                                           n \in DstAfterSince}

InitDates ==
    /\ variant \in Variants
    /\ token \in Tokens
    /\ \E b \in SinceBack :
          /\ since_date \in {Date(Today - b), BadDate}
          /\ \E n \in Spans : until_date \in {Date(Today - b + n), BadDate}
          /\ tz \in Zones(Today - b)
    /\ \E c \in ClockSecs, us \in ClockMicros :
          /\ c < DayLength(Today, tz)
          /\ clock = Instant(Today, c, us)
    /\ ticks = 1
    /\ Fresh

NextDates ==
    \/ Construct
    \/ ValidateDateRange
    \/ Probe
    \/ FetchManifest
    \/ CollectFailed
    \/ SimpleTokenCheck
    \/ SimpleValidate
    \/ SimpleProbe
    \/ SimpleManifest

SpecDates == InitDates /\ [][NextDates]_vars

(* The runs of the complete variant, from the command line on or from the  *)
(* call that builds the analyzer directly, with options and arguments      *)
(* given, omitted or empty, after at most one earlier run, up to the       *)
(* answer to the probe.  An argument left out of the call is None.         *)
Argument(a) == IF a = None THEN Falsy ELSE a[1]
Enterprises == {"octo", SlashEnterprise}

(* The zones of these runs: no change, or a change today, at 01:00         *)
(* (Europe/London in spring), at 02:00 (America/New_York) or at 04:00      *)
(* (Europe/Helsinki in autumn) on the clock that is left.                  *)
ChangeTimes == {3600, 7200, 14400}
MainZones ==
    {NoDst} \cup {Dst(k, Today, at) : k \in {"spring", "fall"}, at \in ChangeTimes}
MainClocks ==
    {Instant(Today, c, us) : c \in {3600, 7200, 43200, 86399}, us \in ClockMicros}
EarlierClocks == MainClocks \cup {Instant(Today - 1, 43200, 0)}
Runs ==
    [enterprise : {"octo"}, clock : EarlierClocks,
     output : {None, Some(GivenDir)}]
Before(c, d) ==
    \/ c.today < d.today
    \/ c.today = d.today /\ c.secs < d.secs
    \/ c.today = d.today /\ c.secs = d.secs /\ c.micro <= d.micro

InitMain ==
    /\ variant = "complete"
    /\ token \in {TokenUnset, TokenGood}
    /\ tz \in MainZones
    /\ clock \in {c \in MainClocks : c.secs < DayLength(c.today, tz)}
    /\ ticks = 1
    /\ enterprise \in Enterprises
    /\ argv \in [since : {None, Some(Falsy), Some(Date(Today - 10))},
                 until : {None, Some(Falsy), Some(Date(Today - 3))},
                 output : {None, Some(NoPath), Some(GivenDir), Some(NestedDir),
                           Some(ExistingFile)}]
    /\ earlier \in {{}} \cup {{r} : r \in {q \in Runs :
                                            /\ q.clock.secs < DayLength(q.clock.today, tz)
                                            /\ Before(q.clock, clock)}}
    /\ main_today = None
    /\ \/ /\ pc = "main"
          /\ since_date = Falsy
          /\ until_date = Falsy
       \/ /\ pc = "start"
          /\ since_date = Argument(argv.since)
          /\ until_date = Argument(argv.until)
    /\ Blank

NextMain ==
    \/ Main
    \/ Construct
    \/ ValidateDateRange
    \/ Probe
    \/ CollectFailed

SpecMain == InitMain /\ [][NextMain]_vars

(***************************************************************************)
(* Properties                                                              *)
(***************************************************************************)
Range(seq) == {seq[k] : k \in 1..Len(seq)}
Ran(step) == step \in Range(steps)
WellFormed == since_date.wellformed /\ until_date.wellformed
Aborted == pc \in {"collect_failed", "exit"}
ExitedWith(c) == pc = "exit" => exit_code = Exited(c)

(* C1: in the complete variant, a window whose since is a later date than  *)
(* its until fails validation with "since after until", and the run issues *)
(* no HTTP request at all and exits with status 1.                         *)
C1_SinceAfterUntil ==
    (variant = "complete" /\ WellFormed /\ since_date.day > until_date.day)
        => /\ requests = <<>>
           /\ ExitedWith(1)
           /\ Ran("validate") =>
                 /\ log = <<"since_after_until">>
                 /\ Aborted
                 /\ steps = <<"construct", "validate">>

C1_Witness ==
    /\ variant = "complete"
    /\ WellFormed
    /\ since_date.day > until_date.day
    /\ Ran("validate")
    /\ pc = "exit"

(* C2: in both variants, a window with since <= until that spans more than *)
(* 14 days fails validation with "range too long", and no HTTP request is  *)
(* issued.                                                                 *)
C2_RangeTooLong ==
    (WellFormed /\ since_date.day <= until_date.day
                /\ until_date.day - since_date.day > 14)
        => /\ requests = <<>>
           /\ ExitedWith(1)
           /\ Ran("validate") =>
                 /\ log = <<"range_exceeds_14_days">>
                 /\ Aborted

C2_Witness ==
    /\ WellFormed
    /\ since_date.day <= until_date.day
    /\ until_date.day - since_date.day > 14
    /\ tz.kind = "spring"
    /\ since_date.day <= tz.day
    /\ tz.day < until_date.day
    /\ Ran("validate")
    /\ pc = "exit"

(* Seconds from local midnight of day a to local midnight of day b. *)
Elapsed(a, b) == Timestamp(b, tz) - Timestamp(a, tz)
(* Whole seconds from local midnight of the since date to the latest       *)
(* reading of the clock; the reading is more than 365 days after it.       *)
SinceToNow == NowEpoch(clock, tz).secs - Timestamp(since_date.day, tz)
TooFarInPast ==
    \/ SinceToNow > 365 * 86400
    \/ SinceToNow = 365 * 86400 /\ clock.micro > 0

(* C3: in the complete variant, a window that passes the order rule and    *)
(* the 14-day rule and whose since lies more than 365 days before the      *)
(* current time fails validation with "365 days in the past", and the run  *)
(* aborts before any network call.                                         *)
C3_TooFarInPast ==
    (/\ variant = "complete"
     /\ WellFormed
     /\ Elapsed(since_date.day, until_date.day) >= 0
     /\ Elapsed(since_date.day, until_date.day) <= 14 * 86400
     /\ TooFarInPast)
        => /\ requests = <<>>
           /\ ExitedWith(1)
           /\ Ran("validate") =>
                 /\ log = <<"since_over_365_days">>
                 /\ Aborted

C3_Witness ==
    /\ variant = "complete"
    /\ WellFormed
    /\ Elapsed(since_date.day, until_date.day) >= 0
    /\ Elapsed(since_date.day, until_date.day) <= 14 * 86400
    /\ SinceToNow = 365 * 86400
    /\ clock.micro > 0
    /\ Ran("validate")
    /\ pc = "exit"

(* C4: with GITHUB_TOKEN absent or empty, either variant terminates with   *)
(* exit status 1 in its first step, before any HTTP request.               *)
C4_MissingToken ==
    (token = TokenUnset \/ token = TokenEmpty)
        => /\ requests = <<>>
           /\ pc \in {"start", "exit"}
           /\ pc = "exit" =>
                 /\ exit_code = Exited(1)
                 /\ steps = <<"construct">>
                 /\ log = <<"token_not_set">>

C4_Witness ==
    /\ token = TokenEmpty
    /\ pc = "exit"
    /\ exit_code = Exited(1)

(* The run of the complete variant has reported a configuration error. *)
ConfigErrors ==
    {"token_not_set", "since_after_until", "range_exceeds_14_days",
     "since_over_365_days", "date_parse_error"}
ConfigErrorReported ==
    variant = "complete" /\ log # <<>> /\ log[1] \in ConfigErrors

(* C5 as stated: when a configuration error is reported, no network        *)
(* request and no filesystem write, the creation of the output directories *)
(* included, has happened.                                                 *)
C5_Original ==
    ConfigErrorReported => (requests = <<>> /\ fs = {})

(* C5, amended: when a configuration error is reported no network request  *)
(* has been made and no file has been written; a missing token is reported *)
(* before anything is created, an invalid window after __init__ has        *)
(* created the output directory and its three subdirectories.              *)
C5_ConfigErrorsBeforeNetwork ==
    ConfigErrorReported
        => /\ requests = <<>>
           /\ log[1] = "token_not_set" => fs = {}
           /\ log[1] # "token_not_set" => fs = OutputDirs
           /\ ExitedWith(1)

C5_Witness ==
    /\ ConfigErrorReported
    /\ log[1] = "range_exceeds_14_days"
    /\ fs = OutputDirs
    /\ pc = "exit"

(* The answers to the first two requests, and to the blob requests. *)
ProbeFailed ==
    /\ Len(responses) >= 1
    /\ responses[1].result \in {"transport", "status_4xx", "status_5xx"}
ManifestAnswered == Len(responses) >= 2
ManifestFailed == ManifestAnswered /\ responses[2].result # "ok"
ManifestOk == ManifestAnswered /\ responses[2].result = "ok"
BlobRequests == SubSeq(requests, 3, Len(requests))
BlobResponses == SubSeq(responses, 3, Len(responses))
NoOutputFile == fs \subseteq OutputDirs

(* C6: a probe that fails with a transport error or an error status aborts *)
(* the run: the probe stays the only request (no manifest request, no blob *)
(* download), no report, chart or export step runs, and the process exits  *)
(* with status 1.                                                          *)
C6_ProbeFailureAborts ==
    ProbeFailed
        => /\ Len(requests) = 1
           /\ requests[1].kind = "probe"
           /\ steps = <<"construct", "validate", "probe">>
           /\ Aborted
           /\ ExitedWith(1)
           /\ NoOutputFile
           /\ df = None

C6_Witness ==
    /\ variant = "complete"
    /\ ProbeFailed
    /\ responses[1].result = "status_5xx"
    /\ pc = "exit"

(* C7: a manifest request that gets an error status, fails in transport or *)
(* returns a body that is not JSON aborts the run: no blob URI is fetched, *)
(* self.df stays None, no CSV, report or chart is written, and the process *)
(* exits with a non-zero status.                                           *)
C7_ManifestFailureAborts ==
    ManifestFailed
        => /\ Len(requests) = 2
           /\ \A k \in 1..Len(requests) : requests[k].kind # "blob"
           /\ steps = <<"construct", "validate", "probe", "manifest">>
           /\ df = None
           /\ NoOutputFile
           /\ Aborted
           /\ pc = "exit" => (exit_code.exited /\ exit_code.code # 0)

C7_Witness ==
    /\ variant = "complete"
    /\ ManifestFailed
    /\ responses[2].result = "status_4xx"
    /\ pc = "exit"

(* The rows of the chunks that were downloaded and decoded, in the order   *)
(* of the requests.                                                        *)
RECURSIVE RowsOfOk(_)
RowsOfOk(rs) ==
    IF rs = <<>> THEN <<>>
    ELSE (IF Head(rs).result = "ok" THEN Head(rs).chunk.rows ELSE <<>>)
             \o RowsOfOk(Tail(rs))
AnyOk(rs) == \E k \in 1..Len(rs) : rs[k].result = "ok"
AnyFailed(rs) == \E k \in 1..Len(rs) : rs[k].result # "ok"
SourceRow(r) == Row(r.user_login, r.hitdttm, r.notnull)
(* The loop over the manifest has gone through every entry. *)
LoopDone == ManifestOk /\ pc # "blobs" /\ i > Len(json_data)

(* C8: when the blob loop is over and at least one blob was decoded, the   *)
(* aggregated table holds exactly the rows of the decoded chunks, in fetch *)
(* order, duplicates kept, and nothing of a failed blob; its length is the *)
(* sum of the chunks' lengths.                                             *)
C8_AggregateIsOkChunksInOrder ==
    (variant = "complete" /\ LoopDone /\ AnyOk(BlobResponses))
        => /\ df # None
           /\ Len(df[1].rows) = Len(RowsOfOk(BlobResponses))
           /\ \A k \in 1..Len(df[1].rows) :
                 SourceRow(df[1].rows[k]) = RowsOfOk(BlobResponses)[k]

C8_Witness ==
    /\ variant = "complete"
    /\ LoopDone
    /\ Len(BlobResponses) = 3
    /\ BlobResponses[1] = BlobOk(ChunkFull)
    /\ BlobResponses[2].result = "decode_error"
    /\ BlobResponses[3] = BlobOk(ChunkBare)
    /\ df # None
    /\ Len(df[1].rows) = 3

(* The blob URIs of the manifest, entry after entry. *)
RECURSIVE AllUris(_)
AllUris(m) == IF m = <<>> THEN <<>> ELSE Head(m).blob_uris \o AllUris(Tail(m))

(* The blob downloads that failed, and what the loop logged about them. *)
FailedBlobs == SelectSeq(BlobResponses, LAMBDA r : r.result # "ok")
BlobErrorsLogged ==
    SelectSeq(log, LAMBDA e : e \in {"blob_error", "blob_http_error"})

(* A failed blob download is logged and skipped: the run is still going    *)
(* while the loop is, an error is logged for every failed download and for *)
(* no other, the chunks kept are those of the downloads that succeeded,    *)
(* the loop requests every blob URI of the manifest whatever failed, and   *)
(* the simple variant then ends with status 0.  The loop is left before    *)
(* its last entry only at an entry of the manifest that is not an object   *)
(* with a list of URIs.                                                    *)
C9_LoggedAndSkipped ==
    /\ (ManifestOk /\ pc = "blobs") => (exit_code = NoExit /\ ~crashed)
    /\ (ManifestOk /\ pc # "blobs" /\ i <= Len(json_data))
          => json_data[i].kind # "object"
    /\ ManifestOk => Len(BlobErrorsLogged) = Len(FailedBlobs)
    /\ (ManifestOk /\ variant = "complete")
          => Len(all_dataframes) = Len(BlobResponses) - Len(FailedBlobs)
    /\ LoopDone =>
          /\ Len(BlobRequests) = Len(AllUris(json_data))
          /\ \A k \in 1..Len(BlobRequests) : BlobRequests[k].url = AllUris(json_data)[k]
    /\ (LoopDone /\ variant = "simple") => (pc = "exit" /\ exit_code = Exited(0))

(* C9: a failed blob download never ends the run: it is logged and         *)
(* skipped, every later blob URI of the manifest is still requested, and   *)
(* in the complete variant, with at least one decoded chunk, the run goes  *)
(* on to the report, the visualization and the export step: when it has    *)
(* ended, all three were entered.                                          *)
C9_BlobFailureDoesNotAbort ==
    /\ C9_LoggedAndSkipped
    /\ (LoopDone /\ variant = "complete" /\ AnyOk(BlobResponses)) =>
          /\ pc \in {"report", "visualize", "export", "finish", "exit"}
          /\ RawCsv \in fs
          /\ pc = "exit" =>
                Ran("report") /\ Ran("visualize") /\ Ran("export")

(* Every entry of the manifest is an object with a list of blob URIs. *)
WellShaped == \A k \in 1..Len(json_data) : json_data[k].kind = "object"

(* C10: with a manifest that lists no blob URI at all (no entry, or only   *)
(* entries with an empty list of URIs), self.df stays None, no raw CSV is  *)
(* written, none of the report, visualization and export steps runs, and   *)
(* no exception is raised.                                                 *)
C10_NoBlobUris ==
    (variant = "complete" /\ ManifestOk /\ WellShaped
                         /\ AllUris(json_data) = <<>>)
        => /\ df = None
           /\ NoOutputFile
           /\ ~Ran("report") /\ ~Ran("visualize") /\ ~Ran("export")
           /\ ~crashed
           /\ Len(requests) = 2
           /\ pc \in {"blobs", "collect_failed", "exit"}
           /\ Ran("combine") => log = <<"no_data_collected">>

C10_Witness ==
    /\ variant = "complete"
    /\ ManifestOk
    /\ Len(json_data) = 2
    /\ WellShaped
    /\ AllUris(json_data) = <<>>
    /\ Ran("combine")
    /\ pc = "exit"

(* The blob loop is over and no chunk was decoded: the manifest listed no  *)
(* URI, or every download failed.                                          *)
EmptyAggregate ==
    variant = "complete" /\ LoopDone /\ ~AnyOk(BlobResponses)

(* C11: an empty aggregate is not fatal: the run warns that no data was    *)
(* collected, skips the report, visualization and export steps, and does   *)
(* not end with the failure status 1.                                      *)
C11_EmptyAggregateNotFatal ==
    EmptyAggregate
        => /\ ~Ran("report") /\ ~Ran("visualize") /\ ~Ran("export")
           /\ Ran("combine") => "no_data_collected" \in Range(log)
           /\ pc = "exit" => exit_code # Exited(ExitFailure)

(* The run has ended in a fatal failure of validation or of a fetch: a     *)
(* missing token, an invalid window, a failed probe or a failed manifest   *)
(* request.                                                                *)
FatalFailure ==
    \/ ConfigErrorReported
    \/ ProbeFailed
    \/ ManifestFailed

(* All four steps of run_complete_analysis were entered and each returned  *)
(* to its caller, collect_data with True.                                  *)
FullSuccess ==
    /\ ~crashed
    /\ df # None
    /\ Ran("combine") /\ Ran("report") /\ Ran("visualize") /\ Ran("export")

(* C12: when the complete variant has ended, its exit status is 0 exactly  *)
(* when all four steps ran to completion, and it is 1 after every fatal    *)
(* failure of validation or of a fetch.                                    *)
C12_ExitStatus ==
    (variant = "complete" /\ pc = "exit")
        => /\ exit_code.exited
           /\ exit_code.code \in {0, 1}
           /\ exit_code = Exited(0) <=> FullSuccess
           /\ FatalFailure => exit_code = Exited(1)

C12_Witness ==
    /\ variant = "complete"
    /\ pc = "exit"
    /\ ManifestFailed
    /\ responses[2].result = "bad_json"
    /\ exit_code = Exited(1)

(* The run of the complete variant has ended with a table that has rows    *)
(* and lacks some of the optional columns.                                 *)
LacksOptionalColumns ==
    /\ variant = "complete"
    /\ df # None
    /\ Len(df[1].rows) > 0
    /\ df[1].cols # OptionalColumns

(* C13: a table with rows that lacks any of the optional columns goes      *)
(* through the report, visualization and export steps without an uncaught  *)
(* exception, and the run exits with status 0.                             *)
C13_MissingColumnsNotFatal ==
    (LacksOptionalColumns /\ pc = "exit")
        => /\ ~crashed
           /\ Ran("report") /\ Ran("visualize") /\ Ran("export")
           /\ exit_code = Exited(0)

(* The table of the complete variant has rows and no language column. *)
LacksLanguage ==
    /\ variant = "complete"
    /\ df # None
    /\ Len(df[1].rows) > 0
    /\ "language" \notin df[1].cols

(* C14: with a table that has no language column, the report is written    *)
(* without the section TOP PROGRAMMING LANGUAGES and no top-language line   *)
(* is printed, create_visualizations draws its other plots and not the     *)
(* language plot, and neither step raises: the run goes on to the next     *)
(* step.                                                                   *)
C14_NoLanguageColumn ==
    LacksLanguage
        => /\ Ran("report") =>
                 /\ SummaryReport \in fs
                 /\ "TOP PROGRAMMING LANGUAGES" \notin Range(report.file)
                 /\ "Top Language" \notin Range(report.printed)
                 /\ report.printed =
                        <<"Total Interactions", "Active Users", "Peak Hour",
                          "Most Active Day">>
                 /\ pc = "visualize" \/ Ran("visualize")
           /\ Ran("visualize") =>
                 /\ PlotLanguage \notin fs
                 /\ PlotAlways \subseteq fs
                 /\ pc = "export" \/ Ran("export")

C14_Witness ==
    /\ LacksLanguage
    /\ Ran("report")
    /\ Ran("visualize")
    /\ pc = "export"
    /\ ~crashed

(* One of the steps after collect_data has been entered. *)
DownstreamStarted == Ran("report") \/ Ran("visualize") \/ Ran("export")
DownstreamFiles ==
    {SummaryReport, UserCsv, LanguageCsv, DailyCsv, PlotLanguage} \cup PlotAlways

(* C15: raw_copilot_data.csv is written before the report, the charts or   *)
(* the exports are started: no file of these steps exists without it, and  *)
(* once one of them has been entered, whether it then fails or not, the    *)
(* file exists and holds every row of the aggregated table, in order.      *)
C15_RawCsvBeforeDownstream ==
    variant = "complete"
        => /\ RawCsv \notin fs => (~DownstreamStarted /\ fs \cap DownstreamFiles = {})
           /\ raw_csv = None <=> RawCsv \notin fs
           /\ (DownstreamStarted \/ pc = "report") =>
                 /\ RawCsv \in fs
                 /\ df # None
                 /\ raw_csv # None
                 /\ Len(raw_csv[1].records) = Len(df[1].rows)
                 /\ \A k \in 1..Len(df[1].rows) :
                       /\ raw_csv[1].records[k].user_login = df[1].rows[k].user_login
                       /\ ParseTimestamp(raw_csv[1].records[k].hitdttm)
                              = df[1].rows[k].hitdttm
                 /\ Len(raw_csv[1].records) = Len(RowsOfOk(BlobResponses))

C15_Witness ==
    /\ variant = "complete"
    /\ pc = "exit"
    /\ crashed
    /\ Ran("export")
    /\ RawCsv \in fs
    /\ raw_csv # None
    /\ Len(raw_csv[1].records) = 6

(* C16: the report, visualization and export steps leave self.df as it is: *)
(* the same rows in the same order, the same columns.                      *)
C16_DownstreamKeepsTable ==
    [][(pc \in {"report", "visualize", "export"}) => (df' = df)]_vars

C16_Witness ==
    /\ variant = "complete"
    /\ pc = "finish"
    /\ df # None
    /\ Len(df[1].rows) = 5
    /\ UserCsv \in fs
    /\ raw_csv # None
    /\ Len(raw_csv[1].records) = 5

(* C17: in both variants the blob requests are the blob URIs of the        *)
(* manifest, flattened in manifest order: at any moment the requests made  *)
(* so far are the first URIs of that list, one request per URI, failed or  *)
(* not; each request was answered before the next one was made; when the   *)
(* loop is over every URI was requested once.                              *)
C17_BlobRequestsFollowManifest ==
    ManifestOk
        => /\ Len(BlobRequests) <= Len(AllUris(json_data))
           /\ \A k \in 1..Len(BlobRequests) :
                 /\ BlobRequests[k].kind = "blob"
                 /\ BlobRequests[k].url = AllUris(json_data)[k]
           /\ \A k, l \in 1..Len(BlobRequests) :
                 k # l => BlobRequests[k].url # BlobRequests[l].url
           /\ Len(responses) = Len(requests)
           /\ LoopDone => Len(BlobRequests) = Len(AllUris(json_data))

C17_Witness ==
    /\ variant = "complete"
    /\ LoopDone
    /\ Len(json_data) = 2
    /\ Len(json_data[1].blob_uris) = 2
    /\ Len(BlobRequests) = 3
    /\ BlobResponses[1].result = "transport"
    /\ BlobResponses[2].result = "decode_error"
    /\ BlobRequests[3].url = BlobUri(2, 1)

(* The steps of the pipeline in the order of the code. *)
StepOrder ==
    <<"construct", "validate", "probe", "manifest", "blob", "combine", "report",
      "visualize", "export">>
Rank(step) == CHOOSE k \in 1..Len(StepOrder) : StepOrder[k] = step

(* C18: the steps of a run are entered in the order validate, probe,       *)
(* manifest, blob downloads, aggregate and persist, report, visualize,     *)
(* export: a step follows its predecessor in that order (the aggregation   *)
(* follows the manifest when there is no blob), only the blob download is  *)
(* repeated, and the report, the charts and the exports are started only   *)
(* when every blob of the manifest has been requested and answered.        *)
C18_StepOrder ==
    /\ \A k \in 1..Len(steps) : steps[k] \in Range(StepOrder)
    /\ steps # <<>> => steps[1] = "construct"
    /\ \A k \in 2..Len(steps) :
          \/ Rank(steps[k]) = Rank(steps[k - 1]) + 1
          \/ steps[k - 1] = "blob" /\ steps[k] = "blob"
          \/ steps[k - 1] = "manifest" /\ steps[k] = "combine"
    /\ DownstreamStarted =>
          /\ Ran("combine")
          /\ LoopDone
          /\ Len(BlobRequests) = Len(AllUris(json_data))
          /\ Len(BlobResponses) = Len(AllUris(json_data))

C18_Witness ==
    /\ variant = "complete"
    /\ pc = "exit"
    /\ exit_code = Exited(0)
    /\ steps = <<"construct", "validate", "probe", "manifest", "blob", "blob",
                 "blob", "combine", "report", "visualize", "export">>

(* C19: no blob request carries a header, so the token is never sent to a  *)
(* blob URI: the k-th blob request is the GET of the k-th URI of the       *)
(* manifest and nothing else, whatever the token of the run.               *)
C19_BlobRequestsCarryNoToken ==
    \A k \in 1..Len(requests) :
        requests[k].kind = "blob"
            => /\ requests[k].headers = <<>>
               /\ token.value \notin Range(requests[k].headers)
               /\ k > 2
               /\ requests[k] = Request("blob", AllUris(json_data)[k - 2], <<>>)

C19_Witness ==
    /\ token = TokenOther
    /\ LoopDone
    /\ Len(BlobRequests) = 3
    /\ requests[2].headers = <<"Bearer", "ghp_B">>
    /\ \A k \in 1..3 : BlobRequests[k].headers = <<>>

(* The run of the complete variant whose manifest has one entry with two   *)
(* blob URIs, each answered with a table of three rows that has the        *)
(* columns hitdttm, user_login and language only.                          *)
TwoLanguageChunks ==
    /\ variant = "complete"
    /\ LoopDone
    /\ Len(json_data) = 1
    /\ Len(json_data[1].blob_uris) = 2
    /\ BlobResponses = <<BlobOk(ChunkLanguage), BlobOk(ChunkLanguage)>>

(* C20: that run aggregates six rows, reaches the export step, and writes  *)
(* user_activity_summary.csv with one row for each distinct user_login.    *)
C20_TwoLanguageChunksExported ==
    (TwoLanguageChunks /\ pc = "exit")
        => /\ df # None
           /\ Len(df[1].rows) = 6
           /\ Ran("export")
           /\ UserCsv \in fs
           /\ user_summary # None
           /\ DOMAIN user_summary[1] = {"alice", "bob"}

(* The files of a complete run output bundle. *)
BundleFiles ==
    {RawCsv, UserCsv, LanguageCsv, DailyCsv, SummaryReport, PlotLanguage}
        \cup PlotAlways
ExitedZero == variant = "complete" /\ pc = "exit" /\ exit_code = Exited(0)

(* C21 as stated: every run of the complete variant that ends with exit    *)
(* status 0 has written the raw CSV, the three summaries, the report and   *)
(* the five plots.                                                         *)
C21_Original ==
    ExitedZero => BundleFiles \subseteq fs

(* C21, amended: a run that ends with exit status 0 and whose aggregated   *)
(* table has at least one row has written every file of the bundle; when   *)
(* the table has no row, the run still ends with status 0 and has written  *)
(* the raw CSV only.                                                       *)
C21_ExitZeroLeavesBundle ==
    ExitedZero
        => /\ df # None
           /\ RawCsv \in fs
           /\ Len(df[1].rows) > 0 => fs = OutputDirs \cup BundleFiles
           /\ Len(df[1].rows) = 0 => fs = OutputDirs \cup {RawCsv}

C21_Witness ==
    /\ ExitedZero
    /\ Len(df[1].rows) = 2
    /\ AnyFailed(BlobResponses)
    /\ fs = OutputDirs \cup BundleFiles

(* C22: a run that is not given an output directory never gets the         *)
(* directory of an earlier run that was not given one either, not even     *)
(* when both runs are for the same enterprise and start in the same        *)
(* second.                                                                 *)
C22_OutputDirNeverReused ==
    (variant = "complete" /\ argv.output = None /\ output_dir # None)
        => \A r \in earlier : r.output = None => output_dir[1] # RunDir(r, tz)

(* The options --since and --until as main and then __init__ see them. *)
SinceOmitted == argv.since = None
UntilOmitted == argv.until = None
SinceEmpty == argv.since = Some(Falsy)
UntilEmpty == argv.until = Some(Falsy)
Constructed == Ran("construct") /\ ~TokenMissing(token)
FromMain == main_today # None

(* C23: the default window is until = today minus 1 day and since = today  *)
(* minus 15 days, 14 days before until, today being the date the place     *)
(* read: main resolves so the options omitted on the command line, and     *)
(* __init__ the arguments omitted when the analyzer is built directly (and *)
(* the ones it gets as an empty string).  With both ends omitted, in       *)
(* either place, the window is this one, whatever the clock does between   *)
(* main and __init__.                                                      *)
C23_DefaultWindow ==
    variant = "complete"
        => /\ (FromMain /\ SinceOmitted)
                 => since_date = Date(main_today[1].today - 15)
           /\ (FromMain /\ UntilOmitted)
                 => until_date = Date(main_today[1].today - 1)
           /\ (Constructed /\ ~FromMain /\ SinceOmitted)
                 => since_date = Date(init_today[1].today - 15)
           /\ (Constructed /\ ~FromMain /\ UntilOmitted)
                 => until_date = Date(init_today[1].today - 1)
           /\ (Constructed /\ SinceEmpty)
                 => since_date = Date(init_today[1].today - 15)
           /\ (Constructed /\ UntilEmpty)
                 => until_date = Date(init_today[1].today - 1)
           /\ (Constructed /\ SinceOmitted /\ UntilOmitted)
                 => until_date.day - since_date.day = 14

C23_Witness ==
    /\ variant = "complete"
    /\ FromMain
    /\ Constructed
    /\ SinceOmitted
    /\ UntilOmitted
    /\ init_today[1].today = main_today[1].today + 1
    /\ since_date = Date(Today - 15)
    /\ until_date = Date(Today - 1)

InsideLimits ==
    /\ WellFormed
    /\ since_date.day <= until_date.day
    /\ until_date.day - since_date.day <= 14
    /\ clock.today - since_date.day <= 365

(* C25: a well-formed window with since <= until, at most 14 calendar days *)
(* long and starting at most 365 calendar days before today passes         *)
(* validation, whatever the time of day and wherever a daylight-saving     *)
(* change falls.                                                           *)
C25_WindowInsideLimitsAccepted ==
    (InsideLimits /\ Ran("validate"))
        => /\ Range(log) \cap ConfigErrors = {}
           /\ pc # "collect_failed"

(* The validation errors logged, and the rules as the code evaluates them. *)
IsConfigError(e) == e \in ConfigErrors
Reported == SelectSeq(log, IsConfigError)
SinceAfterUntil == Elapsed(since_date.day, until_date.day) < 0
RangeTooLong == Elapsed(since_date.day, until_date.day) > 14 * 86400

(* C26: in the complete variant a validation that fails reports exactly    *)
(* one rule, the first violated one in the order since after until, range  *)
(* over 14 days, since over 365 days in the past; a window that violates   *)
(* none reports nothing.                                                   *)
C26_OneRuleByPrecedence ==
    (variant = "complete" /\ WellFormed /\ Ran("validate"))
        => /\ Len(Reported) <= 1
           /\ SinceAfterUntil => Reported = <<"since_after_until">>
           /\ (~SinceAfterUntil /\ RangeTooLong)
                 => Reported = <<"range_exceeds_14_days">>
           /\ (~SinceAfterUntil /\ ~RangeTooLong /\ TooFarInPast)
                 => Reported = <<"since_over_365_days">>
           /\ (~SinceAfterUntil /\ ~RangeTooLong /\ ~TooFarInPast)
                 => Reported = <<>>

C26_Witness ==
    /\ variant = "complete"
    /\ WellFormed
    /\ since_date.day = clock.today - 380
    /\ until_date.day = since_date.day + 30
    /\ RangeTooLong
    /\ TooFarInPast
    /\ Reported = <<"range_exceeds_14_days">>
    /\ pc = "exit"

(* C27: a since or until string that strptime rejects makes validation     *)
(* fail with the parse error logged: no HTTP request is issued, no         *)
(* exception is left uncaught, and the run exits with status 1.            *)
C27_BadDateString ==
    (~WellFormed /\ Ran("validate"))
        => /\ requests = <<>>
           /\ ~crashed
           /\ log = <<"date_parse_error">>
           /\ Aborted
           /\ ExitedWith(1)

C27_Witness ==
    /\ variant = "complete"
    /\ since_date.wellformed
    /\ until_date = BadDate
    /\ Ran("validate")
    /\ pc = "exit"
    /\ exit_code = Exited(1)
    /\ ~crashed

====
